---- MODULE Spec2Model ----
(***************************************************************************)
(* Model of the rollouts-plugin-metric-ai metric provider:                 *)
(*   - RpcPlugin.Run and the mode dispatch (analyzeWithMode,               *)
(*     analyzeWithKubernetesAgent)                         -- Spec          *)
(*   - retryWithBackoff around the model call              -- SpecRetry     *)
(* Texts on which the code works character by character are sequences of   *)
(* one-character strings; durations are integers in milliseconds.          *)
(***************************************************************************)
EXTENDS Integers, Sequences, FiniteSets, TLC

VARIABLES
    \* ---- RpcPlugin.Run ----
    pc,              \* position of Run
    pluginCfg,       \* metric.Provider.Plugin["argoproj-labs/metric-ai"]
    cfg,             \* aiConfig after json.Unmarshal
    stableSelector, canarySelector, modelName,
    stableLogs, canaryLogs, logsContext,
    analysisMode, namespace, podName,
    analysisJSON, result, aiErr,
    newMeasurement,  \* the measurement under construction / returned
    calls,           \* collaborators invoked so far, in order
    issueArgs,       \* arguments handed to createCanaryFailureIssue
    probe,           \* what the health probe GET / met
    aiParams,        \* the AIAnalysisParams handed to analyzeLogsWithAI
    canaryFetch,     \* what readFirstPodLogs answered for the canary selector
    agentReply,      \* what the POST /a2a/analyze met
    \* extractFirstJSON applied to one text
    exPc, exIn, exOut,
    \* analyzeLogsWithAI
    anPc,            \* position in analyzeLogsWithAI
    anResp,          \* resp, the response of GenerateContent
    anTxt,           \* txt
    anRawJSON,       \* rawJSON
    anObj,           \* obj
    anParseErr,      \* the error of the last json.Unmarshal
    anParses,        \* the texts handed to json.Unmarshal, in order
    anExtracts,      \* the texts handed to extractFirstJSON, in order
    anRet,           \* what analyzeLogsWithAI returned
    \* splitLogs applied to one text
    spPc, spIn, spOut,
    \* ---- the log context from Run to splitLogs ----
    rtPc, rtStable, rtCanary, rtCtx, rtOut,
    \* ---- a second call of retryWithBackoff, without quota details ----
    twin,
    \* ---- calls of retryWithBackoff that run concurrently ----
    frames,          \* the local variables of each call
    heap,            \* the ExponentialBackOff objects, by their address
    solo,            \* each call run alone on the same outcomes
    \* ---- retryWithBackoff ----
    rpc,             \* position of retryWithBackoff / backoff.Retry
    maxRetries,      \* the maxRetries parameter
    attempt, lastErr,
    invoked,         \* how many times the operation was invoked
    lastRet,         \* what the last invocation of the operation returned
    opRet,           \* what operationWithLogging returned to backoff.Retry
    backoffConfig,   \* the ExponentialBackOff
    elapsed,         \* time.Since(startedAt)
    nominal, next,   \* interval before and after randomization
    cancelled,       \* ctx.Err() != nil
    cancelledAt,     \* position at which ctx was cancelled
    retryErr,        \* error returned by backoff.Retry
    retResult,       \* error returned by retryWithBackoff
    prevHint         \* a hinted wait was used earlier in this call

runVars == <<pc, pluginCfg, cfg, stableSelector, canarySelector, modelName,
             stableLogs, canaryLogs, logsContext, analysisMode, namespace,
             podName, analysisJSON, result, aiErr, newMeasurement, calls,
             issueArgs, probe, aiParams, agentReply, canaryFetch>>
retryVars == <<rpc, maxRetries, invoked, lastRet, attempt, lastErr, opRet, backoffConfig, elapsed,
               nominal, next, cancelled, cancelledAt, retryErr, retResult,
               prevHint>>
extractVars == <<exPc, exIn, exOut>>
analyzeVars == <<anPc, anResp, anTxt, anRawJSON, anObj, anParseErr, anParses,
                 anExtracts, anRet>>
splitVars == <<spPc, spIn, spOut>>
roundVars == <<rtPc, rtStable, rtCanary, rtCtx, rtOut>>
twinVars == <<twin>>
concVars == <<frames, heap, solo>>
vars == <<runVars, retryVars, extractVars, analyzeVars, splitVars, roundVars, twinVars, concVars>>

----------------------------------------------------------------------------
\* Generic helpers on texts (sequences of characters)

\* strings.Contains(s, c) for a one-character c
ContainsChar(s, c) == \E i \in DOMAIN s : s[i] = c

----------------------------------------------------------------------------
\* Constants of the source

AnalysisModeDefault == "default"
AnalysisModeAgent == "agent"

PhaseSuccessful == "Successful"
PhaseFailed == "Failed"
PhaseError == "Error"

NoErr == "nil"
NoValue == ""

stableMarker == <<"-","-","-"," ","S","T","A","B","L","E"," ","L","O","G","S"," ","-","-","-">>
canaryMarker == <<"-","-","-"," ","C","A","N","A","R","Y"," ","L","O","G","S"," ","-","-","-">>

ErrAgentConfig == "agent mode requires namespace and podName to be configured"

----------------------------------------------------------------------------
\* Inputs of Run: the plugin configuration and what the collaborators answer

ConfidenceValues == (0..100) \cup {0 - 5, 150}

NoText == <<>>
PodWithDash == <<"p","o","d","-","1">>
TemplateHash == <<"6","b","8","d","9">>
ResolvedPod == <<"c","a","n","a","r","y","-","6","b","8","d","9">>

\* letters and the folding of keys
UpperLetters == <<"A","B","C","D","E","F","G","H","I","J","K","L","M",
                  "N","O","P","Q","R","S","T","U","V","W","X","Y","Z">>
LowerLetters == <<"a","b","c","d","e","f","g","h","i","j","k","l","m",
                  "n","o","p","q","r","s","t","u","v","w","x","y","z">>

\* the lower-case letter of every upper-case letter
LowerOf == [c \in {UpperLetters[i] : i \in 1..26} |->
              LowerLetters[CHOOSE i \in 1..26 : UpperLetters[i] = c]]

ToLower(c) == IF c \in DOMAIN LowerOf THEN LowerOf[c] ELSE c

\* the two characters outside ASCII that fold to an ASCII letter: the long s
\* (U+017F) and the Kelvin sign (U+212A)
FoldRune(c) ==
    CASE c = "\\u017f" -> "s"
      [] c = "\\u212a" -> "k"
      [] OTHER -> ToLower(c)

\* the key as encoding/json folds it to match a field name without regard
\* to case
FoldKey(key) == [i \in DOMAIN key |-> FoldRune(key[i])]

\* a JSON object: its entries in the order of the document
EmptyObj == <<>>

Entry(key, val) == [key |-> key, val |-> val]

\* the keys of the plugin configuration: the json tags of aiConfig and the
\* two keys the README documents for the selectors, as characters
KeyChars ==
    [ model |-> <<"m","o","d","e","l">>,
      stableLabel |-> <<"s","t","a","b","l","e","L","a","b","e","l">>,
      canaryLabel |-> <<"c","a","n","a","r","y","L","a","b","e","l">>,
      baseBranch |-> <<"b","a","s","e","B","r","a","n","c","h">>,
      githubUrl |-> <<"g","i","t","h","u","b","U","r","l">>,
      analysisMode |-> <<"a","n","a","l","y","s","i","s","M","o","d","e">>,
      namespace |-> <<"n","a","m","e","s","p","a","c","e">>,
      podName |-> <<"p","o","d","N","a","m","e">>,
      extraPrompt |-> <<"e","x","t","r","a","P","r","o","m","p","t">>,
      stablePodLabel |-> <<"s","t","a","b","l","e","P","o","d","L","a","b","e","l">>,
      canaryPodLabel |-> <<"c","a","n","a","r","y","P","o","d","L","a","b","e","l">> ]

\* a plugin configuration with its keys spelled as the json tags are
MkObj(mode, ns, pod, labels) ==
    (IF mode = "" THEN <<>> ELSE <<Entry(KeyChars.analysisMode, mode)>>)
    \o (IF ns = "" THEN <<>> ELSE <<Entry(KeyChars.namespace, ns)>>)
    \o (IF pod = NoText THEN <<>> ELSE <<Entry(KeyChars.podName, pod)>>)
    \o (CASE labels = "tags" -> <<Entry(KeyChars.stableLabel, "app=stable"),
                                   Entry(KeyChars.canaryLabel, "app=canary"),
                                   Entry(KeyChars.extraPrompt, "be strict")>>
          [] labels = "readme" -> <<Entry(KeyChars.stablePodLabel, "app=stable"),
                                     Entry(KeyChars.canaryPodLabel, "app=canary")>>
          [] OTHER -> <<>>)
    \o <<Entry(KeyChars.baseBranch, "main"),
          Entry(KeyChars.githubUrl, "https://github.com/owner/repo")>>

\* keys in another case than the tags: {"AnalysisMode":"agent","NAMESPACE":"prod",
\* "podname":"pod-1","MODEL":"gemini-pro","githubURL":"https://github.com/owner/repo"}
FoldedKeysObj ==
    <<Entry(<<"A","n","a","l","y","s","i","s","M","o","d","e">>, "agent"),
      Entry(<<"N","A","M","E","S","P","A","C","E">>, "prod"),
      Entry(<<"p","o","d","n","a","m","e">>, PodWithDash),
      Entry(<<"M","O","D","E","L">>, "gemini-pro"),
      Entry(<<"g","i","t","h","u","b","U","R","L">>, "https://github.com/owner/repo")>>

\* a key that occurs twice, in two spellings:
\* {"analysisMode":"default","ANALYSISMODE":"agent","namespace":"prod","podName":"pod-1"}
RepeatedKeyObj ==
    <<Entry(KeyChars.analysisMode, "default"),
      Entry(<<"A","N","A","L","Y","S","I","S","M","O","D","E">>, "agent"),
      Entry(KeyChars.namespace, "prod"),
      Entry(KeyChars.podName, PodWithDash)>>

PluginObjects ==
    { MkObj(mode, ns, pod, labels) :
        mode \in {"", "default", "agent", "turbo"},
        ns \in {"", "prod"},
        pod \in {NoText, PodWithDash, TemplateHash},
        labels \in {"none", "tags", "readme"} }
    \cup { FoldedKeysObj, RepeatedKeyObj }

PluginCfgs ==
    { [present |-> FALSE, valid |-> TRUE, obj |-> EmptyObj],
      [present |-> TRUE, valid |-> FALSE, obj |-> EmptyObj] }
    \cup { [present |-> TRUE, valid |-> TRUE, obj |-> o] : o \in PluginObjects }

LogTexts == { <<>>, <<"o","k">> }

\* what readFirstPodLogs answers
LogFetchOutcomes ==
    { [err |-> NoErr, text |-> t] : t \in LogTexts }
    \cup { [err |-> "notfound", text |-> NoText], [err |-> "failed to list pods", text |-> NoText] }

\* AIAnalysisResult
ZeroResult == [Text |-> "", Promote |-> FALSE, Confidence |-> 0]

\* what analyzeLogsWithAI answers
AnalyzerOutcomes ==
    { [raw |-> "", obj |-> ZeroResult, err |-> e] :
        e \in {"failed to get Google API key from secret", "max retries exceeded"} }
    \cup { [raw |-> "json", obj |-> [Text |-> "analysis", Promote |-> p, Confidence |-> c], err |-> NoErr] :
             p \in BOOLEAN, c \in ConfidenceValues }

\* A2AResponse values the delegate may send
A2AResponses ==
    { [Analysis |-> "agent analysis", RootCause |-> "cause", Remediation |-> "fix",
       PRLink |-> l, Promote |-> p, Confidence |-> c] :
        l \in {"", "https://github.com/owner/repo/pull/1"}, p \in BOOLEAN, c \in ConfidenceValues }

\* what the HTTP exchange of AnalyzeWithAgent yields
AgentHttpOutcomes ==
    { [transport |-> t, status |-> s, decodes |-> d] :
        t \in BOOLEAN, s \in {200, 201, 404, 500}, d \in BOOLEAN }

----------------------------------------------------------------------------
\* Pure helpers of Run

RECURSIVE LastValue(_, _, _)
\* the value of the last entry of obj whose key matches the tag without
\* regard to case, the zero value when no entry does
LastValue(obj, tag, zero) ==
    IF obj = <<>> THEN zero
    ELSE IF FoldKey(obj[Len(obj)].key) = FoldKey(tag) THEN obj[Len(obj)].val
    ELSE LastValue(SubSeq(obj, 1, Len(obj) - 1), tag, zero)

\* json.Unmarshal of one string field of aiConfig: every entry whose key
\* matches the field's json tag, exactly or without regard to case, is
\* stored into the field in the order of the document, so the last one
\* stays; the zero value when there is none
Field(obj, key, zero) == LastValue(obj, KeyChars[key], zero)

Unmarshal(obj) ==
    [ Model |-> Field(obj, "model", ""),
      StableLabel |-> Field(obj, "stableLabel", ""),
      CanaryLabel |-> Field(obj, "canaryLabel", ""),
      BaseBranch |-> Field(obj, "baseBranch", ""),
      GitHubURL |-> Field(obj, "githubUrl", ""),
      AnalysisMode |-> Field(obj, "analysisMode", ""),
      Namespace |-> Field(obj, "namespace", ""),
      PodName |-> Field(obj, "podName", NoText),
      ExtraPrompt |-> Field(obj, "extraPrompt", "") ]

ZeroCfg == Unmarshal(EmptyObj)

NoMetadata == [isSet |-> FALSE]

\* FormatScore with one decimal instead of two ("%.1f")
FormatScoreOneDecimal(c) ==
    LET a == IF c < 0 THEN 0 - c ELSE c
        r == (a + 5) \div 10
    IN (IF c < 0 THEN "-" ELSE "") \o ToString(r \div 10) \o "." \o ToString(r % 10)

\* fmt.Sprintf("%.2f", float64(c)/100.0)
FormatScore(c) ==
    LET a == IF c < 0 THEN 0 - c ELSE c
    IN (IF c < 0 THEN "-" ELSE "") \o ToString(a \div 100) \o "."
       \o ToString((a % 100) \div 10) \o ToString(a % 10)

\* fmt.Sprintf("%d", c)
FormatInt(c) == ToString(c)

\* markMeasurementError that sets the phase and drops the error's text
markMeasurementErrorSilent(m, err) ==
    [m EXCEPT !.Phase = PhaseError, !.FinishedAt = TRUE]

\* markMeasurementError that leaves the measurement unfinished
markMeasurementErrorUnfinished(m, err) ==
    [m EXCEPT !.Phase = PhaseError, !.Message = err]

markMeasurementError(m, err) ==
    [m EXCEPT !.Phase = PhaseError, !.Message = err, !.FinishedAt = TRUE]

\* findIndex(s, substr): first 0-based index of substr in s, -1 if none
findIndex(s, substr) ==
    LET n == Len(s) - Len(substr)
        hits == { i \in 0..n : SubSeq(s, i + 1, i + Len(substr)) = substr }
    IN IF hits = {} THEN 0 - 1
       ELSE CHOOSE i \in hits : \A j \in hits : i <= j

\* splitLogs that falls back only when the stable marker is missing
splitLogsStableOnly(ctx) ==
    LET stableIdx == findIndex(ctx, stableMarker)
        canaryIdx == findIndex(ctx, canaryMarker)
    IN IF stableIdx = 0 - 1
       THEN [panic |-> FALSE, stable |-> ctx, canary |-> NoText]
       ELSE IF canaryIdx = 0 - 1
       THEN [panic |-> FALSE,
             stable |-> SubSeq(ctx, stableIdx + Len(stableMarker) + 1, Len(ctx)),
             canary |-> NoText]
       ELSE IF stableIdx + Len(stableMarker) > canaryIdx
       THEN [panic |-> TRUE, stable |-> NoText, canary |-> NoText]
       ELSE [panic |-> FALSE,
             stable |-> SubSeq(ctx, stableIdx + Len(stableMarker) + 1, canaryIdx),
             canary |-> SubSeq(ctx, canaryIdx + Len(canaryMarker) + 1, Len(ctx))]

\* splitLogs(logsContext); "panic" when a slice bound is out of range
splitLogs(ctx) ==
    LET stableIdx == findIndex(ctx, stableMarker)
        canaryIdx == findIndex(ctx, canaryMarker)
    IN IF stableIdx = 0 - 1 \/ canaryIdx = 0 - 1
       THEN [panic |-> FALSE, stable |-> ctx, canary |-> NoText]
       ELSE IF stableIdx + Len(stableMarker) > canaryIdx
       THEN [panic |-> TRUE, stable |-> NoText, canary |-> NoText]
       ELSE [panic |-> FALSE,
             stable |-> SubSeq(ctx, stableIdx + Len(stableMarker) + 1, canaryIdx),
             canary |-> SubSeq(ctx, canaryIdx + Len(canaryMarker) + 1, Len(ctx))]

\* the context Run builds from the two pod logs
BuildLogsContext(stable, canary) ==
    stableMarker \o <<"\n">> \o stable \o <<"\n", "\n">> \o canaryMarker \o <<"\n">> \o canary


----------------------------------------------------------------------------
\* RpcPlugin.Run, one action per step between two collaborator calls

NewMeasurement ==
    [StartedAt |-> TRUE, Phase |-> "", Value |-> NoValue, Message |-> "",
     Metadata |-> NoMetadata, FinishedAt |-> FALSE]

NoJSON == [kind |-> "none"]

NoProbe == [sent |-> FALSE]
NoParams == [called |-> FALSE]
NoFetch == [done |-> FALSE]
NoReply == [sent |-> FALSE]

\* the outcomes of the probe: a transport failure, or a response with a status
ProbeOutcomes == [sent : {TRUE}, transport : BOOLEAN, status : {200, 404, 500}]

\* a HealthCheck that also rejects a response whose status is not 200
A2AHealthCheckByStatus(o) ==
    IF o.transport THEN "health check failed: connection refused"
    ELSE IF o.status # 200 THEN "health check failed: status " \o ToString(o.status)
    ELSE NoErr

\* A2AClient.HealthCheck: the error it returns for an outcome of GET /
A2AHealthCheck(o) ==
    IF o.transport THEN "health check failed: connection refused" ELSE NoErr

InitRun ==
    /\ pc = "parseConfig"
    /\ pluginCfg \in PluginCfgs
    /\ cfg = ZeroCfg
    /\ stableSelector = "" /\ canarySelector = "" /\ modelName = ""
    /\ stableLogs = NoText /\ canaryLogs = NoText /\ logsContext = NoText
    /\ analysisMode = "" /\ namespace = "" /\ podName = NoText
    /\ analysisJSON = NoJSON /\ result = ZeroResult /\ aiErr = NoErr
    /\ newMeasurement = NewMeasurement
    /\ calls = <<>>
    /\ issueArgs = [called |-> FALSE]
    /\ probe = NoProbe
    /\ aiParams = NoParams
    /\ canaryFetch = NoFetch
    /\ agentReply = NoReply

\* return markMeasurementError(newMeasurement, err)
ReturnError(err) ==
    /\ newMeasurement' = markMeasurementError(newMeasurement, err)
    /\ pc' = "done"

\* parse the plugin configuration and set the defaults
ParseConfig ==
    /\ pc = "parseConfig"
    /\ IF pluginCfg.present /\ ~pluginCfg.valid
       THEN /\ ReturnError("invalid plugin configuration")
            /\ UNCHANGED <<cfg, stableSelector, canarySelector, modelName>>
       ELSE LET c == IF pluginCfg.present THEN Unmarshal(pluginCfg.obj) ELSE ZeroCfg
            IN /\ cfg' = c
               /\ stableSelector' = IF c.StableLabel = "" THEN "role=stable" ELSE c.StableLabel
               /\ canarySelector' = IF c.CanaryLabel = "" THEN "role=canary" ELSE c.CanaryLabel
               /\ modelName' = IF c.Model = "" THEN "gemini-2.0-flash" ELSE c.Model
               /\ pc' = "acquireKubeClient"
               /\ UNCHANGED newMeasurement
    /\ UNCHANGED <<canaryFetch, aiParams, agentReply, probe, pluginCfg, stableLogs, canaryLogs, logsContext, analysisMode,
                   namespace, podName, analysisJSON, result, aiErr, calls, issueArgs>>

AcquireKubeClient ==
    /\ pc = "acquireKubeClient"
    /\ calls' = Append(calls, "acquireKubeClient")
    /\ \E ok \in BOOLEAN :
         IF ok THEN pc' = "readStableLogs" /\ UNCHANGED newMeasurement
         ELSE ReturnError("no kube config")
    /\ UNCHANGED <<canaryFetch, aiParams, agentReply, probe, pluginCfg, cfg, stableSelector, canarySelector, modelName,
                   stableLogs, canaryLogs, logsContext, analysisMode, namespace,
                   podName, analysisJSON, result, aiErr, issueArgs>>

ReadStableLogs ==
    /\ pc = "readStableLogs"
    /\ calls' = Append(calls, "readFirstPodLogs")
    /\ \E o \in LogFetchOutcomes :
         IF o.err = NoErr
         THEN stableLogs' = o.text /\ pc' = "readCanaryLogs" /\ UNCHANGED newMeasurement
         ELSE ReturnError(o.err) /\ UNCHANGED stableLogs
    /\ UNCHANGED <<canaryFetch, aiParams, agentReply, probe, pluginCfg, cfg, stableSelector, canarySelector, modelName,
                   canaryLogs, logsContext, analysisMode, namespace,
                   podName, analysisJSON, result, aiErr, issueArgs>>

\* ReadCanaryLogs without the errors.IsNotFound branch
ReadCanaryLogsStrict ==
    /\ pc = "readCanaryLogs"
    /\ calls' = Append(calls, "readFirstPodLogs")
    /\ \E o \in LogFetchOutcomes :
       /\ canaryFetch' = [done |-> TRUE, err |-> o.err]
       /\ CASE o.err = NoErr ->
                  /\ canaryLogs' = o.text
                  /\ logsContext' = BuildLogsContext(stableLogs, o.text)
                  /\ pc' = "validateMode"
                  /\ UNCHANGED newMeasurement
             [] OTHER ->
                  /\ ReturnError(o.err)
                  /\ UNCHANGED <<canaryLogs, logsContext>>
    /\ UNCHANGED <<aiParams, agentReply, probe, pluginCfg, cfg, stableSelector, canarySelector, modelName,
                   stableLogs, analysisMode, namespace,
                   podName, analysisJSON, result, aiErr, issueArgs>>

\* fetch the canary logs; a not-found error is reported as success
ReadCanaryLogs ==
    /\ pc = "readCanaryLogs"
    /\ calls' = Append(calls, "readFirstPodLogs")
    /\ \E o \in LogFetchOutcomes :
       /\ canaryFetch' = [done |-> TRUE, err |-> o.err]
       /\ CASE o.err = NoErr ->
                  /\ canaryLogs' = o.text
                  /\ logsContext' = BuildLogsContext(stableLogs, o.text)
                  /\ pc' = "validateMode"
                  /\ UNCHANGED newMeasurement
             [] o.err = "notfound" ->
                  /\ newMeasurement' = [newMeasurement EXCEPT !.Value = "1",
                                          !.Phase = PhaseSuccessful, !.FinishedAt = TRUE]
                  /\ pc' = "done"
                  /\ UNCHANGED <<canaryLogs, logsContext>>
             [] OTHER ->
                  /\ ReturnError(o.err)
                  /\ UNCHANGED <<canaryLogs, logsContext>>
    /\ UNCHANGED <<aiParams, agentReply, probe, pluginCfg, cfg, stableSelector, canarySelector, modelName,
                   stableLogs, analysisMode, namespace,
                   podName, analysisJSON, result, aiErr, issueArgs>>

\* default the mode and check what agent mode requires
ValidateMode ==
    /\ pc = "validateMode"
    /\ LET mode == IF cfg.AnalysisMode = "" THEN AnalysisModeDefault ELSE cfg.AnalysisMode
       IN /\ analysisMode' = mode
          /\ namespace' = cfg.Namespace
          /\ podName' = cfg.PodName
          /\ IF mode = AnalysisModeAgent /\ (cfg.Namespace = "" \/ cfg.PodName = NoText)
             THEN ReturnError(ErrAgentConfig)
             ELSE /\ pc' = IF mode = AnalysisModeAgent /\ ~ContainsChar(cfg.PodName, "-")
                           THEN "resolveTemplateHash" ELSE "analyzeWithMode"
                  /\ UNCHANGED newMeasurement
    /\ UNCHANGED <<canaryFetch, aiParams, agentReply, probe, pluginCfg, cfg, stableSelector, canarySelector, modelName,
                   stableLogs, canaryLogs, logsContext,
                   analysisJSON, result, aiErr, calls, issueArgs>>

RECURSIVE Plain(_)
\* the characters of a text as one string, as %s formats it
Plain(s) == IF s = <<>> THEN "" ELSE Head(s) \o Plain(Tail(s))

\* podName without a dash is looked up as a pod template hash
ResolveTemplateHash ==
    /\ pc = "resolveTemplateHash"
    /\ \E o \in {"no client", "list failed", "no pods", "found"} :
         /\ calls' = IF o = "no client" THEN Append(calls, "getKubeClient")
                     ELSE calls \o <<"getKubeClient", "listPods">>
         /\ CASE o = "no client" ->
                   ReturnError("failed to create k8s client: no kube config") /\ UNCHANGED podName
              [] o = "list failed" ->
                   ReturnError("failed to find pod with template hash " \o Plain(podName)
                                   \o ": list failed")
                   /\ UNCHANGED podName
              [] o = "no pods" ->
                   ReturnError("no pods found with template hash " \o Plain(podName)) /\ UNCHANGED podName
              [] OTHER ->
                   podName' = ResolvedPod /\ pc' = "analyzeWithMode" /\ UNCHANGED newMeasurement
    /\ UNCHANGED <<canaryFetch, aiParams, agentReply, probe, pluginCfg, cfg, stableSelector, canarySelector, modelName,
                   stableLogs, canaryLogs, logsContext, analysisMode, namespace,
                   analysisJSON, result, aiErr, issueArgs>>

\* analyzeWithMode that sends every mode but "default" to the delegate
AnalyzeWithModeOnlyDefault ==
    /\ pc = "analyzeWithMode"
    /\ pc' = IF analysisMode # AnalysisModeDefault THEN "healthCheck" ELSE "analyzeLogsWithAI"
    /\ UNCHANGED <<canaryFetch, aiParams, agentReply, probe, pluginCfg, cfg, stableSelector, canarySelector,
                   modelName, stableLogs, canaryLogs, logsContext, analysisMode, namespace,
                   podName, analysisJSON, result, aiErr, newMeasurement, calls,
                   issueArgs>>

\* analyzeWithMode: the switch on mode
AnalyzeWithMode ==
    /\ pc = "analyzeWithMode"
    /\ pc' = IF analysisMode = AnalysisModeAgent THEN "healthCheck" ELSE "analyzeLogsWithAI"
    /\ UNCHANGED <<canaryFetch, aiParams, agentReply, probe, pluginCfg, cfg, stableSelector, canarySelector, modelName,
                   stableLogs, canaryLogs, logsContext, analysisMode, namespace,
                   podName, analysisJSON, result, aiErr, newMeasurement, calls,
                   issueArgs>>

\* the default branch: analyzeLogsWithAI(params)
AnalyzeLogsWithAI ==
    /\ pc = "analyzeLogsWithAI"
    /\ calls' = Append(calls, "analyzeLogsWithAI")
    /\ aiParams' = [called |-> TRUE, ModelName |-> modelName, LogsContext |-> logsContext,
                    ExtraPrompt |-> cfg.ExtraPrompt]
    /\ \E o \in AnalyzerOutcomes :
         /\ analysisJSON' = [kind |-> "raw", text |-> o.raw]
         /\ result' = o.obj
         /\ aiErr' = o.err
    /\ pc' = "resolve"
    /\ UNCHANGED <<canaryFetch, agentReply, probe, pluginCfg, cfg, stableSelector, canarySelector, modelName,
                   stableLogs, canaryLogs, logsContext, analysisMode, namespace,
                   podName, newMeasurement, issueArgs>>

\* HealthCheck that falls back to the direct analyzer when the probe fails
HealthCheckFallback ==
    /\ pc = "healthCheck"
    /\ calls' = Append(calls, "HealthCheck")
    /\ \E o \in ProbeOutcomes :
         /\ probe' = o
         /\ pc' = IF o.transport THEN "analyzeLogsWithAI" ELSE "analyzeWithAgent"
    /\ UNCHANGED <<canaryFetch, aiParams, agentReply, pluginCfg, cfg, stableSelector, canarySelector, modelName,
                   stableLogs, canaryLogs, logsContext, analysisMode, namespace,
                   podName, analysisJSON, result, aiErr, newMeasurement, issueArgs>>

\* HealthCheck whose error is only logged: the request is sent all the same
HealthCheckIgnored ==
    /\ pc = "healthCheck"
    /\ calls' = Append(calls, "HealthCheck")
    /\ \E o \in ProbeOutcomes : probe' = o
    /\ pc' = "analyzeWithAgent"
    /\ UNCHANGED <<canaryFetch, aiParams, agentReply, pluginCfg, cfg, stableSelector, canarySelector, modelName,
                   stableLogs, canaryLogs, logsContext, analysisMode, namespace,
                   podName, analysisJSON, result, aiErr, newMeasurement, issueArgs>>

\* analyzeWithKubernetesAgent: client.HealthCheck()
HealthCheck ==
    /\ pc = "healthCheck"
    /\ calls' = Append(calls, "HealthCheck")
    /\ \E o \in ProbeOutcomes :
         /\ probe' = o
         /\ IF A2AHealthCheck(o) # NoErr
            THEN /\ aiErr' = A2AHealthCheck(o)
                 /\ pc' = "resolve"
            ELSE /\ pc' = "analyzeWithAgent"
                 /\ UNCHANGED aiErr
    /\ UNCHANGED <<canaryFetch, aiParams, agentReply, pluginCfg, cfg, stableSelector, canarySelector, modelName,
                   stableLogs, canaryLogs, logsContext, analysisMode, namespace,
                   podName, analysisJSON, result, newMeasurement, issueArgs>>

\* AnalyzeWithAgent that accepts every status below 300
AnalyzeWithAgentAny2xx ==
    /\ pc = "analyzeWithAgent"
    /\ ~splitLogs(logsContext).panic
    /\ calls' = Append(calls, "AnalyzeWithAgent")
    /\ \E h \in AgentHttpOutcomes, resp \in A2AResponses :
         /\ agentReply' = [sent |-> TRUE, transport |-> h.transport, status |-> h.status,
                           decodes |-> h.decodes]
         /\ CASE h.transport ->
                   aiErr' = "failed to send request: connection reset" /\ UNCHANGED <<result, analysisJSON>>
              [] ~h.transport /\ h.status >= 300 ->
                   aiErr' = "agent returned status " \o ToString(h.status) /\ UNCHANGED <<result, analysisJSON>>
              [] ~h.transport /\ ~(h.status >= 300) /\ ~h.decodes ->
                   aiErr' = "failed to decode response: unexpected EOF" /\ UNCHANGED <<result, analysisJSON>>
              [] OTHER ->
                   /\ result' = [Text |-> resp.Analysis, Promote |-> resp.Promote,
                                 Confidence |-> resp.Confidence]
                   /\ analysisJSON' = [kind |-> "agent", text |-> resp.Analysis,
                                       promote |-> resp.Promote, confidence |-> resp.Confidence,
                                       rootCause |-> resp.RootCause, remediation |-> resp.Remediation,
                                       prLink |-> resp.PRLink]
                   /\ UNCHANGED aiErr
    /\ pc' = "resolve"
    /\ UNCHANGED <<canaryFetch, aiParams, probe, pluginCfg, cfg, stableSelector, canarySelector, modelName,
                   stableLogs, canaryLogs, logsContext, analysisMode, namespace,
                   podName, newMeasurement, issueArgs>>

\* analyzeWithKubernetesAgent: splitLogs, client.AnalyzeWithAgent, result
AnalyzeWithAgent ==
    /\ pc = "analyzeWithAgent"
    /\ ~splitLogs(logsContext).panic
    /\ calls' = Append(calls, "AnalyzeWithAgent")
    /\ \E h \in AgentHttpOutcomes, resp \in A2AResponses :
         /\ agentReply' = [sent |-> TRUE, transport |-> h.transport, status |-> h.status,
                           decodes |-> h.decodes]
         /\ CASE h.transport ->
                   aiErr' = "failed to send request: connection reset" /\ UNCHANGED <<result, analysisJSON>>
              [] ~h.transport /\ h.status # 200 ->
                   aiErr' = "agent returned status " \o ToString(h.status) /\ UNCHANGED <<result, analysisJSON>>
              [] ~h.transport /\ ~(h.status # 200) /\ ~h.decodes ->
                   aiErr' = "failed to decode response: unexpected EOF" /\ UNCHANGED <<result, analysisJSON>>
              [] OTHER ->
                   /\ result' = [Text |-> resp.Analysis, Promote |-> resp.Promote,
                                 Confidence |-> resp.Confidence]
                   /\ analysisJSON' = [kind |-> "agent", text |-> resp.Analysis,
                                       promote |-> resp.Promote, confidence |-> resp.Confidence,
                                       rootCause |-> resp.RootCause, remediation |-> resp.Remediation,
                                       prLink |-> resp.PRLink]
                   /\ UNCHANGED aiErr
    /\ pc' = "resolve"
    /\ UNCHANGED <<canaryFetch, aiParams, probe, pluginCfg, cfg, stableSelector, canarySelector, modelName,
                   stableLogs, canaryLogs, logsContext, analysisMode, namespace,
                   podName, newMeasurement, issueArgs>>

\* Resolve that credits the confidence to a failing verdict
ResolvePartialCredit ==
    /\ pc = "resolve"
    /\ IF aiErr # NoErr
       THEN ReturnError(aiErr)
       ELSE LET md == [isSet |-> TRUE, analysis |-> result.Text,
                       analysisJSON |-> analysisJSON,
                       confidence |-> FormatInt(result.Confidence)]
            IN /\ newMeasurement' = [newMeasurement EXCEPT !.Metadata = md,
                                       !.Value = FormatScore(result.Confidence),
                                       !.Phase = IF result.Promote THEN PhaseSuccessful
                                                 ELSE PhaseFailed]
               /\ pc' = IF result.Promote THEN "finish" ELSE "createIssue"
    /\ UNCHANGED <<canaryFetch, aiParams, agentReply, probe, pluginCfg, cfg, stableSelector, canarySelector, modelName,
                   stableLogs, canaryLogs, logsContext, analysisMode, namespace,
                   podName, analysisJSON, result, aiErr, calls, issueArgs>>

\* Resolve that opens an issue whatever the verdict
ResolveAlwaysIssue ==
    /\ pc = "resolve"
    /\ IF aiErr # NoErr
       THEN ReturnError(aiErr)
       ELSE LET md == [isSet |-> TRUE, analysis |-> result.Text,
                       analysisJSON |-> analysisJSON,
                       confidence |-> FormatInt(result.Confidence)]
            IN /\ newMeasurement' = [newMeasurement EXCEPT !.Metadata = md,
                                       !.Value = IF result.Promote
                                                 THEN FormatScore(result.Confidence) ELSE "0",
                                       !.Phase = IF result.Promote THEN PhaseSuccessful
                                                 ELSE PhaseFailed]
               /\ pc' = "createIssue"
    /\ UNCHANGED <<canaryFetch, aiParams, agentReply, probe, pluginCfg, cfg, stableSelector, canarySelector, modelName,
                   stableLogs, canaryLogs, logsContext, analysisMode, namespace,
                   podName, analysisJSON, result, aiErr, calls, issueArgs>>

\* after analyzeWithMode: error, or metadata, value and phase
Resolve ==
    /\ pc = "resolve"
    /\ IF aiErr # NoErr
       THEN ReturnError(aiErr)
       ELSE LET md == [isSet |-> TRUE, analysis |-> result.Text,
                       analysisJSON |-> analysisJSON,
                       confidence |-> FormatInt(result.Confidence)]
            IN IF result.Promote
               THEN /\ newMeasurement' = [newMeasurement EXCEPT !.Metadata = md,
                                            !.Value = FormatScore(result.Confidence),
                                            !.Phase = PhaseSuccessful]
                    /\ pc' = "finish"
               ELSE /\ newMeasurement' = [newMeasurement EXCEPT !.Metadata = md,
                                            !.Value = "0", !.Phase = PhaseFailed]
                    /\ pc' = "createIssue"
    /\ UNCHANGED <<canaryFetch, aiParams, agentReply, probe, pluginCfg, cfg, stableSelector, canarySelector, modelName,
                   stableLogs, canaryLogs, logsContext, analysisMode, namespace,
                   podName, analysisJSON, result, aiErr, calls, issueArgs>>

\* a createCanaryFailureIssue whose error becomes the measurement's error
CreateIssuePropagating ==
    /\ pc = "createIssue"
    /\ calls' = Append(calls, "createCanaryFailureIssue")
    /\ \E issueErr \in BOOLEAN :
         /\ issueArgs' = [called |-> TRUE, logsContext |-> logsContext, text |-> result.Text,
                          baseBranch |-> cfg.BaseBranch, githubUrl |-> cfg.GitHubURL,
                          modelName |-> modelName, failed |-> issueErr]
         /\ newMeasurement' = IF issueErr
                              THEN markMeasurementError(newMeasurement, "failed to create issue")
                              ELSE newMeasurement
    /\ pc' = "finish"
    /\ UNCHANGED <<canaryFetch, aiParams, agentReply, probe, pluginCfg, cfg, stableSelector, canarySelector, modelName,
                   stableLogs, canaryLogs, logsContext, analysisMode, namespace,
                   podName, analysisJSON, result, aiErr>>

\* createCanaryFailureIssue(...); its error is only logged
CreateIssue ==
    /\ pc = "createIssue"
    /\ calls' = Append(calls, "createCanaryFailureIssue")
    /\ \E issueErr \in BOOLEAN :
         issueArgs' = [called |-> TRUE, logsContext |-> logsContext, text |-> result.Text,
                       baseBranch |-> cfg.BaseBranch, githubUrl |-> cfg.GitHubURL,
                       modelName |-> modelName, failed |-> issueErr]
    /\ pc' = "finish"
    /\ UNCHANGED <<canaryFetch, aiParams, agentReply, probe, pluginCfg, cfg, stableSelector, canarySelector, modelName,
                   stableLogs, canaryLogs, logsContext, analysisMode, namespace,
                   podName, analysisJSON, result, aiErr, newMeasurement>>

Finish ==
    /\ pc = "finish"
    /\ newMeasurement' = [newMeasurement EXCEPT !.FinishedAt = TRUE]
    /\ pc' = "done"
    /\ UNCHANGED <<canaryFetch, aiParams, agentReply, probe, pluginCfg, cfg, stableSelector, canarySelector, modelName,
                   stableLogs, canaryLogs, logsContext, analysisMode, namespace,
                   podName, analysisJSON, result, aiErr, calls, issueArgs>>

RunStep ==
    \/ ParseConfig \/ AcquireKubeClient \/ ReadStableLogs \/ ReadCanaryLogs
    \/ ValidateMode \/ ResolveTemplateHash \/ AnalyzeWithMode
    \/ AnalyzeLogsWithAI \/ HealthCheck \/ AnalyzeWithAgent
    \/ Resolve \/ CreateIssue \/ Finish


----------------------------------------------------------------------------
\* retryWithBackoff: errors, the ExponentialBackOff and duration parsing

typeURLRetryInfo == "type.googleapis.com/google.rpc.RetryInfo"
typeURLQuotaFailure == "type.googleapis.com/google.rpc.QuotaFailure"

StatusTooManyRequests == 429
MaxRetriesDirect == 3

Digits == <<"0","1","2","3","4","5","6","7","8","9">>
IsDigit(c) == \E i \in 1..10 : Digits[i] = c
DigitVal(c) == (CHOOSE i \in 1..10 : Digits[i] = c) - 1

\* ---- numbers of any size: their decimal digits, the lowest first ----

\* the number a numeral writes
ToNumber(ds) == [i \in 1..Len(ds) |-> DigitVal(ds[Len(ds) + 1 - i])]

RECURSIVE NStrip(_)
\* the number without zeros at its upper end
NStrip(a) == IF a # <<>> /\ a[Len(a)] = 0 THEN NStrip(SubSeq(a, 1, Len(a) - 1)) ELSE a

RECURSIVE NTimes(_, _, _)
\* a * k + carry for a small k
NTimes(a, k, carry) ==
    IF a = <<>>
    THEN (IF carry = 0 THEN <<>> ELSE <<carry % 10>> \o NTimes(<<>>, k, carry \div 10))
    ELSE LET p == Head(a) * k + carry
         IN  <<p % 10>> \o NTimes(Tail(a), k, p \div 10)

RECURSIVE NPlus(_, _, _)
\* a + b + carry
NPlus(a, b, carry) ==
    IF a = <<>> /\ b = <<>> THEN (IF carry = 0 THEN <<>> ELSE <<carry>>)
    ELSE LET x == IF a = <<>> THEN 0 ELSE Head(a)
             y == IF b = <<>> THEN 0 ELSE Head(b)
             t == x + y + carry
         IN  <<t % 10>> \o NPlus(IF a = <<>> THEN a ELSE Tail(a),
                                 IF b = <<>> THEN b ELSE Tail(b), t \div 10)

\* a * 10^z; for a negative z the quotient of a by 10^(-z)
NShift(a, z) ==
    IF z >= 0 THEN [i \in 1..z |-> 0] \o a
    ELSE SubSeq(a, 1 - z, Len(a))

RECURSIVE NLeqSame(_, _)
\* a <= b for numbers of the same length
NLeqSame(a, b) ==
    IF a = <<>> THEN TRUE
    ELSE IF a[Len(a)] # b[Len(b)] THEN a[Len(a)] < b[Len(b)]
    ELSE NLeqSame(SubSeq(a, 1, Len(a) - 1), SubSeq(b, 1, Len(b) - 1))

NLeq(a, b) ==
    LET x == NStrip(a)
        y == NStrip(b)
    IN  Len(x) < Len(y) \/ (Len(x) = Len(y) /\ NLeqSame(x, y))

\* the value of the digits i to j of a, where a has no more
NPart(a, i, j) ==
    LET d(k) == IF k <= Len(a) THEN a[k] ELSE 0
        RECURSIVE sum(_)
        sum(k) == IF k > j THEN 0 ELSE d(k) + 10 * sum(k + 1)
    IN  sum(i)

RECURSIVE NOfNat(_)
\* the number of a natural number
NOfNat(k) == IF k = 0 THEN <<>> ELSE <<k % 10>> \o NOfNat(k \div 10)

\* math.MaxInt64 and 1 << 63, the magnitude of math.MinInt64
MaxInt64Digits == <<"9","2","2","3","3","7","2","0","3","6","8","5","4","7","7","5","8","0","7">>
MinInt64Digits == <<"9","2","2","3","3","7","2","0","3","6","8","5","4","7","7","5","8","0","8">>
TwoTo63 == ToNumber(MinInt64Digits)

\* ---- time.Duration: nanoseconds, kept in three parts ----

\* a part counts up to Limb: ns are the nanoseconds below a millisecond, ms
\* the milliseconds below a thousand seconds, ks the thousands of seconds
Limb == 1000000

Duration(ks, ms, ns) == [neg |-> FALSE, ks |-> ks, ms |-> ms, ns |-> ns]

\* parts that have grown beyond Limb carried upward
Carry(ks, ms, ns) ==
    LET m == ms + ns \div Limb
    IN  Duration(ks + m \div Limb, m % Limb, ns % Limb)

\* n * time.Millisecond
Milliseconds(n) == Carry(0, n, 0)

\* d > 0, d == 0
Positive(d) == ~d.neg /\ (d.ks > 0 \/ d.ms > 0 \/ d.ns > 0)
IsZero(d) == d.ks = 0 /\ d.ms = 0 /\ d.ns = 0

\* the values of time.Duration, by their parts
Durations == [neg : BOOLEAN, ks : Nat, ms : Nat, ns : Nat]

\* a + b, a < b, a <= b and a * k for durations that are not negative and
\* a k up to 2000
DPlus[a \in Durations, b \in Durations] == Carry(a.ks + b.ks, a.ms + b.ms, a.ns + b.ns)
DLess(a, b) ==
    \/ a.ks < b.ks
    \/ (a.ks = b.ks /\ a.ms < b.ms)
    \/ (a.ks = b.ks /\ a.ms = b.ms /\ a.ns < b.ns)
DLeq(a, b) == a = b \/ DLess(a, b)
DTimes[a \in Durations, k \in Nat] == Carry(a.ks * k, a.ms * k, a.ns * k)

\* ---- time.Duration as the int64 it is ----

\* math.MaxInt64 and math.MinInt64 nanoseconds
MaxDuration == Duration(9223372, 36854, 775807)
MinDuration == [neg |-> TRUE, ks |-> 9223372, ms |-> 36854, ns |-> 775808]

\* parts of any sign carried so that the lower two lie in 0..Limb-1: the
\* number is ks * Limb^2 + ms * Limb + ns
Floored(ks, ms, ns) ==
    <<ks + (ms + ns \div Limb) \div Limb, (ms + ns \div Limb) % Limb, ns % Limb>>

\* the number of nanoseconds of d in carried parts
Parts(d) == IF d.neg THEN Floored(0 - d.ks, 0 - d.ms, 0 - d.ns) ELSE <<d.ks, d.ms, d.ns>>

\* p < q for carried parts
PartsLess(p, q) ==
    \/ p[1] < q[1]
    \/ (p[1] = q[1] /\ (p[2] < q[2] \/ (p[2] = q[2] /\ p[3] < q[3])))

\* 2^64 in carried parts
TwoTo64 == <<18446744, 73709, 551616>>

\* a number beyond the range of int64 wrapped around into it
Wrapped(p) ==
    IF PartsLess(Parts(MaxDuration), p)
    THEN Floored(p[1] - TwoTo64[1], p[2] - TwoTo64[2], p[3] - TwoTo64[3])
    ELSE IF PartsLess(p, Parts(MinDuration))
    THEN Floored(p[1] + TwoTo64[1], p[2] + TwoTo64[2], p[3] + TwoTo64[3])
    ELSE p

\* the duration of a number in carried parts
Magnitude(neg, m) == [neg |-> neg, ks |-> m[1], ms |-> m[2], ns |-> m[3]]
OfParts(p) ==
    IF p[1] < 0 THEN Magnitude(TRUE, Floored(0 - p[1], 0 - p[2], 0 - p[3]))
    ELSE Magnitude(FALSE, p)

\* the sum of two numbers in carried parts
PartsPlus(p, q) == Floored(p[1] + q[1], p[2] + q[2], p[3] + q[3])

\* a + b of Go on durations: the addition of int64, which wraps around
DPlus64[a \in Durations, b \in Durations] == OfParts(Wrapped(PartsPlus(Parts(a), Parts(b))))

\* a < b of Go on durations of any sign
DLess64(a, b) == PartsLess(Parts(a), Parts(b))

\* time.Since(startedAt) when d more has passed since it was sofar: the
\* difference of two times is the maximum duration when it does not fit
Since(sofar, d) ==
    IF DLess(MaxDuration, DPlus[sofar, d]) THEN MaxDuration ELSE DPlus[sofar, d]

\* the duration of n nanoseconds, n a number of at most 19 digits
ToDuration(neg, n) ==
    LET d == Duration(NPart(n, 13, 19), NPart(n, 7, 12), NPart(n, 1, 6))
    IN  [d EXCEPT !.neg = neg /\ ~IsZero(d)]

\* ---- integers of any size in binary: limbs below 2^15, the lowest first ----

LimbBits == 15
Radix == 2^LimbBits

\* the integer without zeros at its upper end
BStrip(a) ==
    IF \A i \in DOMAIN a : a[i] = 0 THEN <<>>
    ELSE SubSeq(a, 1, CHOOSE i \in DOMAIN a :
                          a[i] # 0 /\ \A j \in (i + 1)..Len(a) : a[j] = 0)

\* the integer of a natural number
BOfNat(n) == BStrip(<<n % Radix, (n \div Radix) % Radix, n \div (Radix * Radix)>>)

RECURSIVE BTimes(_, _, _)
\* a * k + carry for a k below Radix
BTimes(a, k, carry) ==
    IF a = <<>>
    THEN (IF carry = 0 THEN <<>> ELSE <<carry % Radix>> \o BTimes(<<>>, k, carry \div Radix))
    ELSE LET p == Head(a) * k + carry
         IN  <<p % Radix>> \o BTimes(Tail(a), k, p \div Radix)

RECURSIVE BPlus(_, _, _)
\* a + b + carry
BPlus(a, b, carry) ==
    IF a = <<>> /\ b = <<>> THEN (IF carry = 0 THEN <<>> ELSE <<carry>>)
    ELSE LET x == IF a = <<>> THEN 0 ELSE Head(a)
             y == IF b = <<>> THEN 0 ELSE Head(b)
             t == x + y + carry
         IN  <<t % Radix>> \o BPlus(IF a = <<>> THEN a ELSE Tail(a),
                                    IF b = <<>> THEN b ELSE Tail(b), t \div Radix)

RECURSIVE BMinus(_, _, _)
\* a - b - borrow for an a that is not less
BMinus(a, b, borrow) ==
    IF a = <<>> THEN <<>>
    ELSE LET t == Head(a) - (IF b = <<>> THEN 0 ELSE Head(b)) - borrow
         IN  <<(t + Radix) % Radix>> \o BMinus(Tail(a), IF b = <<>> THEN b ELSE Tail(b),
                                               IF t < 0 THEN 1 ELSE 0)

RECURSIVE BMul(_, _)
\* a * b
BMul(a, b) ==
    IF b = <<>> THEN <<>>
    ELSE BStrip(BPlus(BTimes(a, Head(b), 0), <<0>> \o BMul(a, Tail(b)), 0))

\* a < b
BLess(a, b) ==
    \/ Len(a) < Len(b)
    \/ /\ Len(a) = Len(b)
       /\ \E i \in DOMAIN a : a[i] < b[i] /\ \A j \in (i + 1)..Len(a) : a[j] = b[j]

\* the number of bits of a
BitLen(a) ==
    IF a = <<>> THEN 0
    ELSE LimbBits * (Len(a) - 1)
           + (CHOOSE k \in 1..LimbBits : 2^(k - 1) <= a[Len(a)] /\ a[Len(a)] < 2^k)

\* a * 2^s and the quotient of a by 2^s
BShl(a, s) ==
    IF a = <<>> THEN a
    ELSE [i \in 1..(s \div LimbBits) |-> 0] \o BTimes(a, 2^(s % LimbBits), 0)
BShr(a, s) ==
    LET r == s % LimbBits
        b == SubSeq(a, (s \div LimbBits) + 1, Len(a))
    IN  BStrip([i \in 1..Len(b) |->
                   (b[i] \div 2^r)
                     + (IF i < Len(b) THEN (b[i + 1] % 2^r) * 2^(LimbBits - r) ELSE 0)])

BOdd(a) == a # <<>> /\ a[1] % 2 = 1

RECURSIVE BOfN(_)
\* the integer of a number in decimal digits
BOfN(n) == IF n = <<>> THEN <<>> ELSE BTimes(BOfN(Tail(n)), 10, Head(n))

RECURSIVE BDivSmall(_, _)
\* quotient and rest of a by a k up to 1000
BDivSmall(a, k) ==
    IF a = <<>> THEN [q |-> <<>>, rest |-> 0]
    ELSE LET up == BDivSmall(Tail(a), k)
             t == up.rest * Radix + Head(a)
         IN  [q |-> <<t \div k>> \o up.q, rest |-> t % k]

RECURSIVE NOfB(_)
\* the decimal digits of an integer
NOfB(a) ==
    IF a = <<>> THEN <<>>
    ELSE LET dm == BDivSmall(a, 10)
         IN  <<dm.rest>> \o NOfB(BStrip(dm.q))

\* ---- float64: the numbers man * 2^exp with a man below 2^53 ----

\* the bits of the mantissa of a float64, the implicit one included
MantissaBits == 53

\* the float64 (-1)^neg * man * 2^exp
Float64(neg, man, exp) == [neg |-> neg /\ man # <<>>, man |-> man, exp |-> exp]

\* the float64 values: those of Float64 with a mantissa of at most 53 bits,
\* and the exact sums and products that are yet to be rounded
Floats == [neg : BOOLEAN, man : Seq(Nat), exp : Int]

\* q or, rounded up, q + 1: up when what was dropped is above the half of
\* the last place, or is that half and q is odd
Nearest[neg \in BOOLEAN, q \in Seq(Nat), dropped \in Seq(Nat), half \in Seq(Nat),
        exp \in Int, sticky \in BOOLEAN] ==
    Float64(neg,
            IF BLess(half, dropped) \/ (dropped = half /\ (sticky \/ BOdd(q)))
            THEN BPlus(q, <<1>>, 0) ELSE q,
            exp)

\* man * 2^exp without the lowest s bits of man, which leaves q, rounded
Shortened[neg \in BOOLEAN, man \in Seq(Nat), q \in Seq(Nat), s \in Nat,
          exp \in Int, sticky \in BOOLEAN] ==
    Nearest[neg, q, BStrip(BMinus(man, BShl(q, s), 0)), BShl(<<1>>, s - 1), exp + s, sticky]

\* the float64 nearest to man * 2^exp, the even one of two that are equally
\* near. sticky: the number to round is a little above man * 2^exp, by less
\* than 2^exp, and man has more than 54 bits
Round64[neg \in BOOLEAN, man \in Seq(Nat), exp \in Int, sticky \in BOOLEAN] ==
    IF BitLen(man) <= MantissaBits THEN Float64(neg, man, exp)
    ELSE Shortened[neg, man, BShr(man, BitLen(man) - MantissaBits),
                   BitLen(man) - MantissaBits, exp, sticky]

\* float64(n) for an integer of magnitude n
Float64OfInt[neg \in BOOLEAN, n \in Seq(Nat)] == Round64[neg, n, 0, FALSE]

\* -x
FNeg(x) == Float64(~x.neg, x.man, x.exp)

\* the sum of a * 2^e and b * 2^e with their signs, exact
Aligned[xneg \in BOOLEAN, a \in Seq(Nat), yneg \in BOOLEAN, b \in Seq(Nat), e \in Int] ==
    IF xneg = yneg THEN Float64(xneg, BPlus(a, b, 0), e)
    ELSE IF BLess(a, b) THEN Float64(yneg, BStrip(BMinus(b, a, 0)), e)
    ELSE Float64(xneg, BStrip(BMinus(a, b, 0)), e)

\* x + y, exact
Sum[x \in Floats, y \in Floats] ==
    LET e == IF x.exp < y.exp THEN x.exp ELSE y.exp
    IN  Aligned[x.neg, BShl(x.man, x.exp - e), y.neg, BShl(y.man, y.exp - e), e]


\* x * y before it is rounded
Product[x \in Floats, y \in Floats] == Float64(x.neg # y.neg, BMul(x.man, y.man), x.exp + y.exp)

\* the rounding of a sum or product to a float64
Rounded[x \in Floats] == Round64[x.neg, x.man, x.exp, FALSE]

\* x + y, x - y, x * y and x >= y of float64
FAdd[x \in Floats, y \in Floats] == Rounded[Sum[x, y]]
FSub[x \in Floats, y \in Floats] == Rounded[Sum[x, FNeg(y)]]
FMul[x \in Floats, y \in Floats] == Rounded[Product[x, y]]
FGeq[x \in Floats, y \in Floats] == ~Sum[x, FNeg(y)].neg

\* x with a mantissa of exactly 53 bits, for an x that is not 0
Normal[x \in Floats] ==
    LET s == MantissaBits - BitLen(x.man)
    IN  IF s >= 0 THEN [man |-> BShl(x.man, s), exp |-> x.exp - s]
        ELSE [man |-> BShr(x.man, 0 - s), exp |-> x.exp + (0 - s)]

\* n further bits of the quotient r / d, for r below 2 d; q are its bits
\* so far. The rest is 0 when the quotient has no further bits
DivBits[r \in Seq(Nat), d \in Seq(Nat), q \in Seq(Nat), n \in Nat] ==
    IF n = 0 THEN [q |-> q, rest |-> r]
    ELSE IF BLess(r, d) THEN DivBits[BTimes(r, 2, 0), d, BTimes(q, 2, 0), n - 1]
    ELSE DivBits[BTimes(BStrip(BMinus(r, d, 0)), 2, 0), d, BTimes(q, 2, 1), n - 1]

\* the bits of the quotient r / d taken n at a time, `chunks` times
Quotient[r \in Seq(Nat), d \in Seq(Nat), q \in Seq(Nat), n \in Nat, chunks \in Nat] ==
    IF chunks = 0 THEN [q |-> q, rest |-> r]
    ELSE LET c == DivBits[r, d, q, n]
         IN  Quotient[c.rest, d, c.q, n, chunks - 1]

\* the first 55 bits of the quotient a / b of two mantissas of 53 bits,
\* taken 11 at a time, and what is left
MantissaQuotient[a \in Seq(Nat), b \in Seq(Nat)] ==
    Quotient[IF BLess(a, b) THEN BTimes(a, 2, 0) ELSE a, b, <<>>, 11, 5]

\* the float64 nearest to the quotient c, which has 55 bits and a rest
RoundedQuotient[neg \in BOOLEAN, c \in [q : Seq(Nat), rest : Seq(Nat)], exp \in Int] ==
    Round64[neg, c.q, exp, c.rest # <<>>]

\* a / b for a and b with mantissas of 53 bits
NormalQuotient[neg \in BOOLEAN, a \in [man : Seq(Nat), exp : Int], b \in [man : Seq(Nat), exp : Int]] ==
    RoundedQuotient[neg, MantissaQuotient[a.man, b.man],
                    a.exp - b.exp - (IF BLess(a.man, b.man) THEN 1 ELSE 0) - MantissaBits - 1]

\* x / y of float64 for a y that is not 0
FDiv[x \in Floats, y \in Floats] ==
    IF x.man = <<>> THEN Float64(FALSE, <<>>, 0)
    ELSE NormalQuotient[x.neg # y.neg, Normal[x], Normal[y]]

\* the integer part of the magnitude of x
Trunc[x \in Floats] == IF x.exp >= 0 THEN BShl(x.man, x.exp) ELSE BShr(x.man, 0 - x.exp)

\* the float64 nearest to num / den, which a constant such as 0.1 denotes
Float64Of[num \in Nat, den \in Nat \ {0}] == FDiv[Float64OfInt[FALSE, BOfNat(num)], Float64OfInt[FALSE, BOfNat(den)]]

\* the builds of the program, as far as its float64 arithmetic depends on
\* them. The language lets a compiler fuse x * y + z into one operation that
\* rounds once, which the compilers for arm64 and for amd64 with GOAMD64=v3
\* do, and leaves the result of converting a float64 beyond the int64 to
\* the implementation: the lowest int64 on amd64, the nearest on arm64
Builds == {"amd64", "amd64v3", "arm64"}
Fused(build) == build # "amd64"
Saturates(build) == build = "arm64"

\* x * y + z as a build computes it
MulAdd[build \in Builds, x \in Floats, y \in Floats, z \in Floats] ==
    IF Fused(build) THEN Rounded[Sum[Product[x, y], z]] ELSE FAdd[FMul[x, y], z]

\* the magnitude of a duration in nanoseconds
Nanoseconds[d \in Durations] ==
    BTimes(BTimes(BTimes(BTimes(BOfNat(d.ks), 1000, 0), 1000, d.ms), 1000, 0), 1000, d.ns)

\* float64(d) for a time.Duration d
Float64OfDuration[d \in Durations] == Float64OfInt[d.neg, Nanoseconds[d]]

\* time.Duration(x) for a float64 x: the fraction is cut off
DurationOfFloat64[build \in Builds, x \in Floats] ==
    LET t == Trunc[x]
        limit == BShl(<<1>>, 63)
    IN  IF BLess(t, limit) \/ (x.neg /\ t = limit) THEN ToDuration(x.neg, NOfB(t))
        ELSE IF Saturates(build) /\ ~x.neg THEN ToDuration(FALSE, ToNumber(MaxInt64Digits))
        ELSE ToDuration(TRUE, TwoTo63)

\* ---- time.ParseDuration ----

\* the longest prefix of digits of s
LeadingDigits(s) ==
    LET n == IF \E i \in 1..Len(s) : ~IsDigit(s[i])
             THEN (CHOOSE i \in 1..Len(s) :
                      ~IsDigit(s[i]) /\ \A j \in 1..(i - 1) : IsDigit(s[j])) - 1
             ELSE Len(s)
    IN  SubSeq(s, 1, n)

\* the longest prefix of s without a digit and without a point: the unit
LeadingUnit(s) ==
    LET stop(c) == c = "." \/ IsDigit(c)
        n == IF \E i \in 1..Len(s) : stop(s[i])
             THEN (CHOOSE i \in 1..Len(s) : stop(s[i]) /\ \A j \in 1..(i - 1) : ~stop(s[j])) - 1
             ELSE Len(s)
    IN  SubSeq(s, 1, n)

\* unitMap: a unit is Factor * 10^Zeros nanoseconds
unitMap ==
    { [unit |-> <<"n","s">>, Factor |-> 1, Zeros |-> 0],
      [unit |-> <<"u","s">>, Factor |-> 1, Zeros |-> 3],
      [unit |-> <<"\\u00b5","s">>, Factor |-> 1, Zeros |-> 3],
      [unit |-> <<"\\u03bc","s">>, Factor |-> 1, Zeros |-> 3],
      [unit |-> <<"m","s">>, Factor |-> 1, Zeros |-> 6],
      [unit |-> <<"s">>, Factor |-> 1, Zeros |-> 9],
      [unit |-> <<"m">>, Factor |-> 6, Zeros |-> 10],
      [unit |-> <<"h">>, Factor |-> 36, Zeros |-> 11] }

IsUnit(u) == \E e \in unitMap : e.unit = u
UnitOf(u) == CHOOSE e \in unitMap : e.unit = u

\* (1<<63 - 1) / 10
MaxInt64Tenth == ToNumber(SubSeq(MaxInt64Digits, 1, 18))

RECURSIVE FractionLen(_, _, _)
\* leadingFraction: how many of the digits f count. The digits are added
\* to x one by one until x would leave the range of an int64; the digits
\* from there on are dropped
FractionLen(f, x, n) ==
    IF n = Len(f) THEN n
    ELSE IF ~NLeq(x, MaxInt64Tenth) THEN n
    ELSE LET y == <<DigitVal(f[n + 1])>> \o x
         IN  IF ~NLeq(y, TwoTo63) THEN n ELSE FractionLen(f, y, n + 1)

\* uint64(float64(f) * (float64(unit) / scale))
FractionValue(f, unit, scale) ==
    IF f = <<>> THEN <<>>
    ELSE NOfB(Trunc[FMul[Float64OfInt[FALSE, BOfN(f)],
                         FDiv[Float64OfInt[FALSE, BOfN(unit)], Float64OfInt[FALSE, BOfN(scale)]]]])

\* the nanoseconds of one group: int digits, fraction digits and unit:
\*   v * unit + uint64(float64(f) * (float64(unit) / scale))
\* where f are the digits of the fraction that count and scale is 10 to
\* their number
GroupValue(int, frac, u) ==
    LET n == FractionLen(frac, <<>>, 0)
        f == NStrip(ToNumber(SubSeq(frac, 1, n)))
        unit == NShift(NOfNat(u.Factor), u.Zeros)
        scale == NShift(<<1>>, n)
        whole == NShift(NTimes(ToNumber(int), u.Factor, 0), u.Zeros)
    IN  NStrip(NPlus(whole, FractionValue(f, unit, scale), 0))

NoDuration == [ok |-> FALSE, d |-> Duration(0, 0, 0)]

RECURSIVE ParseGroups(_, _, _)

\* the loop of ParseDuration after a group of value v, with s still to read
AddGroup(s, neg, d, v) ==
    IF ~NLeq(v, TwoTo63) THEN NoDuration
    \* d and v are uint64: 1<<63 + 1<<63 wraps around to 0
    ELSE IF NStrip(d) = TwoTo63 /\ v = TwoTo63 THEN ParseGroups(s, neg, <<>>)
    ELSE IF ~NLeq(NStrip(NPlus(d, v, 0)), TwoTo63) THEN NoDuration
    ELSE ParseGroups(s, neg, NStrip(NPlus(d, v, 0)))

\* the loop of ParseDuration over the groups of s; d is the sum so far
ParseGroups(s, neg, d) ==
    IF s = <<>>
    THEN (IF ~neg /\ ~NLeq(d, ToNumber(MaxInt64Digits)) THEN NoDuration
          ELSE [ok |-> TRUE, d |-> ToDuration(neg, d)])
    ELSE IF ~(Head(s) = "." \/ IsDigit(Head(s))) THEN NoDuration
    ELSE LET int == LeadingDigits(s)
             s1 == SubSeq(s, Len(int) + 1, Len(s))
             dot == s1 # <<>> /\ Head(s1) = "."
             frac == IF dot THEN LeadingDigits(Tail(s1)) ELSE <<>>
             s2 == IF dot THEN SubSeq(s1, Len(frac) + 2, Len(s1)) ELSE s1
             u == LeadingUnit(s2)
             s3 == SubSeq(s2, Len(u) + 1, Len(s2))
         IN  IF ~NLeq(ToNumber(int), TwoTo63) THEN NoDuration
             ELSE IF int = <<>> /\ frac = <<>> THEN NoDuration
             ELSE IF u = <<>> \/ ~IsUnit(u) THEN NoDuration
             ELSE AddGroup(s3, neg, d, GroupValue(int, frac, UnitOf(u)))

\* time.ParseDuration: [-+]?([0-9]*(\.[0-9]*)?[a-z]+)+, or "0"
ParseDuration(s) ==
    LET neg == s # <<>> /\ Head(s) = "-"
        body == IF s # <<>> /\ Head(s) \in {"-", "+"} THEN Tail(s) ELSE s
    IN  IF body = <<"0">> THEN [ok |-> TRUE, d |-> Duration(0, 0, 0)]
        ELSE IF body = <<>> THEN NoDuration
        ELSE ParseGroups(body, neg, <<>>)

Second == 1000
Minute == 60 * Second

\* backoff.DefaultMaxElapsedTime, the limit backoff.Retry applies when no
\* WithMaxElapsedTime option is given
DefaultMaxElapsedTime == Milliseconds(15 * Minute)

\* backoff.Stop, the NextBackOff that ends the retries: -1
Stop == [neg |-> TRUE, ks |-> 0, ms |-> 0, ns |-> 1]

\* the tests of backoff.Retry on the next wait:
\*   if next == Stop { return res, err }
\*   if args.MaxElapsedTime > 0 && time.Since(startedAt)+next > args.MaxElapsedTime { return res, err }
\* The sum is one of int64: it is below the limit for a next that is
\* negative, and for a next so large that the sum wraps around.
RetriesEnd(sofar, wait) ==
    \/ wait = Stop
    \/ DLess64(DefaultMaxElapsedTime, DPlus64[sofar, wait])

\* time.Since(startedAt) after Timer.Start(next) and the receive from its
\* channel: a timer of a duration that is not positive fires at once
AfterTimer(sofar, wait) == IF Positive(wait) THEN Since(sofar, wait) ELSE sofar

\* bound of the model: the operation is invoked at most AttemptBound times
AttemptBound == 4

NilErr == [kind |-> "nil"]
CtxCanceled == [kind |-> "ctx", msg |-> "context canceled"]

RetryInfo(delay) == [type |-> typeURLRetryInfo, retryDelay |-> delay]
QuotaFailure == [type |-> typeURLQuotaFailure, retryDelay |-> NoText]

APIError(code, status, details) ==
    [kind |-> "api", code |-> code, status |-> status, details |-> details]

D2s == <<"2","s">>
D30s == <<"3","0","s">>
D20m == <<"2","0","m">>
D0s == <<"0","s">>
DNegative == <<"-","2","s">>
DSoon == <<"s","o","o","n">>
D1m30s == <<"1","m","3","0","s">>
DFraction == <<"1",".","5","s">>
D500us == <<"5","0","0","u","s">>
D1ns == <<"1","n","s">>
\* 100000 days: 8.64e18 ns, below the 9.22e18 ns a duration holds
DHuge == <<"2","4","0","0","0","0","0","h">>

\* what one invocation of the operation may return
OpOutcomes ==
    { NilErr,
      [kind |-> "other", msg |-> "connection reset"],
      APIError(500, "INTERNAL", <<>>),
      APIError(503, "RESOURCE_EXHAUSTED", <<>>),
      APIError(429, "RESOURCE_EXHAUSTED", <<>>),
      APIError(429, "RESOURCE_EXHAUSTED", <<QuotaFailure>>),
      APIError(429, "RESOURCE_EXHAUSTED", <<QuotaFailure, RetryInfo(DFraction)>>),
      APIError(429, "RESOURCE_EXHAUSTED", <<RetryInfo(D30s), RetryInfo(DSoon)>>) }
    \cup { APIError(429, "RESOURCE_EXHAUSTED", <<RetryInfo(d)>>) :
             d \in {DFraction, D20m, D0s, DNegative, DSoon, NoText, DHuge} }

\* the outcomes of the runs that are followed to their end: success, an
\* error that is not retried, rate-limit errors without a hint, with a
\* useless one and with hints of 1ns, 30s, 20m and 2400000h
LiveOutcomes ==
    { NilErr,
      [kind |-> "other", msg |-> "connection reset"],
      APIError(429, "RESOURCE_EXHAUSTED", <<>>),
      APIError(429, "RESOURCE_EXHAUSTED", <<QuotaFailure, RetryInfo(DSoon)>>),
      APIError(429, "RESOURCE_EXHAUSTED", <<RetryInfo(D1ns)>>),
      APIError(429, "RESOURCE_EXHAUSTED", <<RetryInfo(D30s)>>),
      APIError(429, "RESOURCE_EXHAUSTED", <<RetryInfo(D20m)>>),
      APIError(429, "RESOURCE_EXHAUSTED", <<RetryInfo(DHuge)>>) }

\* the outcomes of the calls that run side by side
ConcOutcomes ==
    { NilErr,
      [kind |-> "other", msg |-> "connection reset"],
      APIError(429, "RESOURCE_EXHAUSTED", <<>>),
      APIError(429, "RESOURCE_EXHAUSTED", <<RetryInfo(D1m30s)>>) }

\* a QuotaFailure detail with violations, and one that also holds a delay
QuotaViolations ==
    [type |-> typeURLQuotaFailure, retryDelay |-> NoText,
     violations |-> <<[quotaMetric |-> "requests", quotaId |-> "PerMinute", quotaValue |-> "15"]>>]
QuotaWithDelay == [type |-> typeURLQuotaFailure, retryDelay |-> D30s]

\* an error without its QuotaFailure details
StripQuota(err) ==
    IF err.kind = "api"
    THEN [err EXCEPT !.details = SelectSeq(@, LAMBDA detail : detail.type # typeURLQuotaFailure)]
    ELSE err

QuotaOutcomes ==
    { NilErr,
      [kind |-> "other", msg |-> "connection reset"],
      APIError(429, "RESOURCE_EXHAUSTED", <<>>),
      APIError(429, "RESOURCE_EXHAUSTED", <<QuotaFailure>>),
      APIError(429, "RESOURCE_EXHAUSTED", <<QuotaViolations, QuotaWithDelay>>),
      APIError(429, "RESOURCE_EXHAUSTED", <<RetryInfo(D500us)>>),
      APIError(429, "RESOURCE_EXHAUSTED", <<QuotaFailure, RetryInfo(D2s)>>),
      APIError(429, "RESOURCE_EXHAUSTED", <<RetryInfo(D2s), QuotaWithDelay>>),
      APIError(503, "RESOURCE_EXHAUSTED", <<QuotaViolations, RetryInfo(DSoon)>>),
      APIError(500, "INTERNAL", <<QuotaViolations>>) }

\* time one invocation of the operation takes
OpDurations == {Duration(0, 0, 0), Milliseconds(10 * Minute)}

\* rand.Float64(): a float64 from 0 up to below 1. MaxRandom is the highest,
\* 1 - 2^-53
MaxRandom == Float64(FALSE, BMinus(BShl(<<1>>, MantissaBits), <<1>>, 0), 0 - MantissaBits)

\* the values rand.Float64() is sampled at: the ends of its range
RandomSamples == {Float64(FALSE, <<>>, 0), MaxRandom}

\* the sample in the middle of the range: 0.5
LiveSamples == {Float64Of[1, 2]}

\* time one invocation of the operation takes in the runs that are followed
\* to their end: every invocation takes time
LiveDurations == {Milliseconds(5 * Minute), Milliseconds(10 * Minute)}

\* bound of the runs that are followed to their end: the operation is
\* invoked at most LiveAttempts times, each time for 5 minutes or more, so
\* that a run cut by the bound has gone on for twice the limit of
\* backoff.Retry
LiveAttempts == 6

\* the rate-limit test of operationWithLogging
IsRateLimit(err) ==
    /\ err.kind = "api"
    /\ (err.code = StatusTooManyRequests \/ err.status = "RESOURCE_EXHAUSTED")

RECURSIVE ScanDetailsAnyType(_, _)
\* the loop over apiErr.Details reading retryDelay from a detail of any type
ScanDetailsAnyType(details, apiWaitTime) ==
    IF details = <<>> THEN apiWaitTime
    ELSE LET detail == Head(details)
             parsed == ParseDuration(detail.retryDelay)
         IN ScanDetailsAnyType(Tail(details),
                IF detail.retryDelay # NoText /\ parsed.ok
                THEN parsed.d ELSE apiWaitTime)

\* apiWaitTime after a detail whose retryDelay, if it has one, parses as
\* `parsed`: only a RetryInfo with a duration that parses assigns it
AfterDetail(detail, parsed, apiWaitTime) ==
    IF detail.type = typeURLRetryInfo /\ detail.retryDelay # NoText /\ parsed.ok
    THEN parsed.d ELSE apiWaitTime

RECURSIVE ScanDetails(_, _)
\* the loop over apiErr.Details: the last retryDelay that parses wins
ScanDetails(details, apiWaitTime) ==
    IF details = <<>> THEN apiWaitTime
    ELSE ScanDetails(Tail(details),
                     AfterDetail(Head(details), ParseDuration(Head(details).retryDelay),
                                 apiWaitTime))

\* apiWaitTime of a rate-limit error, 0 when it carries no usable hint
ApiWaitTime(err) ==
    IF IsRateLimit(err) THEN ScanDetails(err.details, Duration(0, 0, 0)) ELSE Duration(0, 0, 0)

\* every error of the model, and the apiWaitTime operationWithLogging
\* computes on it
Errors ==
    OpOutcomes \cup LiveOutcomes \cup ConcOutcomes \cup QuotaOutcomes
        \cup { StripQuota(err) : err \in QuotaOutcomes }
apiWaitTimeOf == [err \in Errors |-> ApiWaitTime(err)]

\* Classify without backoff.Permanent: every error is retried
ClassifyRetryAll(err) == IF err = NilErr THEN "nil" ELSE "retry"

\* what operationWithLogging hands to backoff.Retry for the error of the operation
Classify(err) ==
    IF err = NilErr THEN "nil"
    ELSE IF IsRateLimit(err) THEN "retry"
    ELSE "permanent"

\* ExponentialBackOff.Reset
Reset(b) == [b EXCEPT !.currentInterval = b.InitialInterval]

\* the override of the backoff by an API-suggested wait time
OverrideBackoff(b, apiWaitTime) ==
    [Reset(b) EXCEPT !.InitialInterval = apiWaitTime, !.MaxInterval = apiWaitTime]

\* NewExponentialBackOff with the settings of retryWithBackoff, after Reset
NewBackoffConfig ==
    Reset([InitialInterval |-> Milliseconds(1 * Second), MaxInterval |-> Milliseconds(60 * Second),
           Multiplier |-> Float64Of[2, 1], RandomizationFactor |-> Float64Of[1, 10],
           currentInterval |-> Duration(0, 0, 0)])

\* getRandomValueFromInterval(randomizationFactor, random, currentInterval):
\*   delta = randomizationFactor * float64(currentInterval)
\*   minInterval = float64(currentInterval) - delta
\*   maxInterval = float64(currentInterval) + delta
\*   time.Duration(minInterval + (random * (maxInterval - minInterval + 1)))
getRandomValueFromInterval(build, randomizationFactor, random, currentInterval) ==
    IF randomizationFactor.man = <<>> THEN currentInterval
    ELSE LET cur == Float64OfDuration[currentInterval]
             minInterval == MulAdd[build, FNeg(randomizationFactor), cur, cur]
             maxInterval == MulAdd[build, randomizationFactor, cur, cur]
             width == FAdd[FSub[maxInterval, minInterval], Float64OfInt[FALSE, <<1>>]]
         IN  DurationOfFloat64[build, MulAdd[build, random, width, minInterval]]

\* ExponentialBackOff.incrementCurrentInterval
incrementCurrentInterval(build, b) ==
    LET cur == Float64OfDuration[b.currentInterval]
    IN  IF FGeq[cur, FDiv[Float64OfDuration[b.MaxInterval], b.Multiplier]]
        THEN [b EXCEPT !.currentInterval = b.MaxInterval]
        ELSE [b EXCEPT !.currentInterval = DurationOfFloat64[build, FMul[cur, b.Multiplier]]]

\* the wait times that override the backoff in the model
Hints == { d \in { apiWaitTimeOf[err] : err \in Errors } : Positive(d) }

\* incrementCurrentInterval on the backoff of retryWithBackoff with this
\* currentInterval and MaxInterval, for every build
IncrementedOn(cur, max) ==
    [build \in Builds |->
        incrementCurrentInterval(build, [NewBackoffConfig EXCEPT !.currentInterval = cur,
                                                                !.MaxInterval = max]).currentInterval]

\* t is <<currentInterval, InitialInterval, MaxInterval>> of the backoff:
\* what incrementCurrentInterval and the override by a hint make of it
Successors(t, hints) ==
    { <<IncrementedOn(t[1], t[3])[build], t[2], t[3]>> : build \in Builds }
        \cup { <<t[2], h, h>> : h \in hints }

RECURSIVE SettingsFrom(_, _, _)
\* the settings the backoff takes: those seen so far, the fresh ones and all
\* that follow from them
SettingsFrom(seen, fresh, hints) ==
    IF fresh \subseteq seen THEN seen
    ELSE SettingsFrom(seen \cup fresh, UNION { Successors(t, hints) : t \in fresh \ seen }, hints)

\* getRandomValueFromInterval and incrementCurrentInterval with the settings
\* of retryWithBackoff, computed once for every currentInterval and every
\* pair of currentInterval and MaxInterval among settings
NextBackOffOver(settings) ==
    [next |->
        [build \in Builds, random \in RandomSamples \cup LiveSamples,
         cur \in { t[1] : t \in settings } |->
            getRandomValueFromInterval(build, NewBackoffConfig.RandomizationFactor, random, cur)],
     currentInterval |->
        [p \in { <<t[1], t[3]>> : t \in settings } |-> IncrementedOn(p[1], p[2])]]

\* what NextBackOff makes of the backoff of the model, which starts from the
\* settings of retryWithBackoff
nextBackOffOf ==
    NextBackOffOver(SettingsFrom({}, {<<NewBackoffConfig.currentInterval,
                                        NewBackoffConfig.InitialInterval,
                                        NewBackoffConfig.MaxInterval>>}, Hints))

\* the interval ExponentialBackOff.NextBackOff randomizes
CurrentInterval(b) ==
    IF IsZero(b.currentInterval) THEN b.InitialInterval ELSE b.currentInterval

\* ExponentialBackOff.NextBackOff on the backoff b: the wait it returns for
\* the sample random, and the currentInterval it leaves in b
NextOf(b, build, random) == nextBackOffOf.next[build, random, CurrentInterval(b)]
IncrementOf(b, build) ==
    nextBackOffOf.currentInterval[<<CurrentInterval(b), b.MaxInterval>>][build]


----------------------------------------------------------------------------
\* retryWithBackoff(ctx, operation, maxRetries) around backoff.Retry

InitRetry ==
    /\ rpc = "operation"
    /\ maxRetries = MaxRetriesDirect
    /\ attempt = 0
    /\ lastErr = NilErr
    /\ invoked = 0
    /\ lastRet = NilErr
    /\ opRet = "nil"
    /\ backoffConfig = NewBackoffConfig
    /\ elapsed = Duration(0, 0, 0)
    /\ nominal = Duration(0, 0, 0) /\ next = Duration(0, 0, 0)
    /\ cancelled = FALSE /\ cancelledAt = "never"
    /\ retryErr = NilErr
    /\ retResult = NilErr
    /\ prevHint = FALSE

\* operationWithLogging: one invocation of the operation, the classification
\* of its error and the override of the backoff by a retry hint
Invoke(err, d) ==
    /\ rpc = "operation"
    /\ attempt' = attempt + 1
    /\ invoked' = invoked + 1
    /\ lastRet' = err
    /\ elapsed' = Since(elapsed, d)
    /\ lastErr' = IF err = NilErr THEN lastErr ELSE err
    /\ opRet' = Classify(err)
    /\ backoffConfig' = IF Positive(apiWaitTimeOf[err])
                        THEN OverrideBackoff(backoffConfig, apiWaitTimeOf[err])
                        ELSE backoffConfig
    /\ prevHint' = (prevHint \/ Positive(apiWaitTimeOf[lastErr]))
    /\ rpc' = "check"
    /\ UNCHANGED <<maxRetries, nominal, next, cancelled, cancelledAt, retryErr, retResult>>

\* an invocation with any outcome, while the bound of the model allows one
Operation ==
    /\ attempt < AttemptBound
    /\ \E err \in OpOutcomes, d \in OpDurations : Invoke(err, d)

\* an invocation in a run that is followed to its end, while the bound of
\* such a run allows one
OperationLive ==
    /\ attempt < LiveAttempts
    /\ \E err \in LiveOutcomes, d \in LiveDurations : Invoke(err, d)

\* backoff.Retry after the operation returned: success, permanent error,
\* cancelled context, elapsed-time limit, or the timer for the next wait;
\* random is the sample NextBackOff draws
Check(build, random) ==
    /\ rpc = "check"
    /\ CASE opRet = "nil" ->
              /\ retryErr' = NilErr /\ rpc' = "return"
              /\ UNCHANGED <<backoffConfig, nominal, next>>
         [] opRet = "permanent" ->
              /\ retryErr' = lastErr /\ rpc' = "return"
              /\ UNCHANGED <<backoffConfig, nominal, next>>
         [] opRet = "retry" /\ cancelled ->
              /\ retryErr' = CtxCanceled /\ rpc' = "return"
              /\ UNCHANGED <<backoffConfig, nominal, next>>
         [] OTHER ->
              /\ backoffConfig' =
                     [backoffConfig EXCEPT !.currentInterval = IncrementOf(backoffConfig, build)]
              /\ nominal' = CurrentInterval(backoffConfig)
              /\ next' = NextOf(backoffConfig, build, random)
              /\ IF RetriesEnd(elapsed, next')
                 THEN retryErr' = lastErr /\ rpc' = "return"
                 ELSE retryErr' = retryErr /\ rpc' = "waiting"
    /\ UNCHANGED <<maxRetries, invoked, lastRet, attempt, lastErr, opRet, elapsed, cancelled,
                   cancelledAt, retResult, prevHint>>

RetryCheck == \E build \in Builds, random \in RandomSamples : Check(build, random)

\* the check of the runs that are followed to their end
RetryCheckLive ==
    \E build \in Builds, random \in RandomSamples \cup LiveSamples : Check(build, random)

\* the select of backoff.Retry takes the timer case. ctx.Err() is tested
\* before the timer is started and not again: when ctx is cancelled after
\* that test and the timer has expired by the time the select is evaluated,
\* both cases are ready and either is taken, so the timer case is open in a
\* cancelled wait too. The wait takes the time next when next is positive
\* and no time otherwise.
TimerFires ==
    /\ rpc = "waiting"
    /\ elapsed' = AfterTimer(elapsed, next)
    /\ rpc' = "operation"
    /\ UNCHANGED <<maxRetries, invoked, lastRet, attempt, lastErr, opRet, backoffConfig, nominal, next,
                   cancelled, cancelledAt, retryErr, retResult, prevHint>>

\* the select of backoff.Retry: ctx.Done() is ready
CtxDone ==
    /\ rpc = "waiting"
    /\ cancelled
    /\ retryErr' = CtxCanceled
    /\ rpc' = "return"
    /\ UNCHANGED <<maxRetries, invoked, lastRet, attempt, lastErr, opRet, backoffConfig, elapsed, nominal,
                   next, cancelled, cancelledAt, retResult, prevHint>>

\* fmt.Errorf("max retries exceeded after %d attempts, last error: %v", attempt, lastErr)
MaxRetriesError(n, last) == [kind |-> "maxRetries", attempts |-> n, last |-> last]

\* retryWithBackoff that reports the retries, not the attempts
RetryReturnCountingRetries ==
    /\ rpc = "return"
    /\ retResult' = IF retryErr # NilErr THEN MaxRetriesError(attempt - 1, lastErr) ELSE NilErr
    /\ rpc' = "done"
    /\ UNCHANGED <<maxRetries, invoked, lastRet, attempt, lastErr, opRet, backoffConfig, elapsed,
                   nominal, next, cancelled, cancelledAt, retryErr, prevHint>>

\* retryWithBackoff that tests lastErr instead of the error of backoff.Retry
RetryReturnOnLastErr ==
    /\ rpc = "return"
    /\ retResult' = IF lastErr # NilErr THEN MaxRetriesError(attempt, lastErr) ELSE NilErr
    /\ rpc' = "done"
    /\ UNCHANGED <<maxRetries, invoked, lastRet, attempt, lastErr, opRet, backoffConfig, elapsed,
                   nominal, next, cancelled, cancelledAt, retryErr, prevHint>>

\* the end of retryWithBackoff
RetryReturn ==
    /\ rpc = "return"
    /\ retResult' = IF retryErr # NilErr THEN MaxRetriesError(attempt, lastErr) ELSE NilErr
    /\ rpc' = "done"
    /\ UNCHANGED <<maxRetries, invoked, lastRet, attempt, lastErr, opRet, backoffConfig, elapsed, nominal,
                   next, cancelled, cancelledAt, retryErr, prevHint>>

\* the caller cancels ctx
Cancel ==
    /\ ~cancelled
    /\ rpc # "done"
    /\ cancelled' = TRUE
    /\ cancelledAt' = rpc
    /\ UNCHANGED <<rpc, maxRetries, invoked, lastRet, attempt, lastErr, opRet, backoffConfig, elapsed,
                   nominal, next, retryErr, retResult, prevHint>>

RetryStep == Operation \/ RetryCheck \/ TimerFires \/ CtxDone \/ RetryReturn \/ Cancel

----------------------------------------------------------------------------
\* The steps of retryWithBackoff on the state of one call (backoffConfig,
\* lastErr, attempt and what backoff.Retry keeps), for calls that run side
\* by side

NewRetryState ==
    [rpc |-> "operation", attempt |-> 0, lastErr |-> NilErr, opRet |-> "nil",
     backoffConfig |-> NewBackoffConfig, elapsed |-> Duration(0, 0, 0),
     nominal |-> Duration(0, 0, 0), next |-> Duration(0, 0, 0),
     retryErr |-> NilErr, retResult |-> NilErr]

\* operationWithLogging with the outcome err after the time d
InvokeOn(st, err, d) ==
    [st EXCEPT !.rpc = "check",
               !.attempt = @ + 1,
               !.elapsed = Since(@, d),
               !.lastErr = IF err = NilErr THEN @ ELSE err,
               !.opRet = Classify(err),
               !.backoffConfig = IF Positive(apiWaitTimeOf[err])
                                 THEN OverrideBackoff(@, apiWaitTimeOf[err])
                                 ELSE @]

\* backoff.Retry with the next wait in st.next: the elapsed-time limit, or
\* the timer
LimitOrTimerOn(st) ==
    IF RetriesEnd(st.elapsed, st.next)
    THEN [st EXCEPT !.retryErr = st.lastErr, !.rpc = "return"]
    ELSE [st EXCEPT !.rpc = "waiting"]

\* ExponentialBackOff.NextBackOff
NextBackOffOn(st, build, random) ==
    [st EXCEPT !.backoffConfig.currentInterval = IncrementOf(st.backoffConfig, build),
               !.nominal = CurrentInterval(st.backoffConfig),
               !.next = NextOf(st.backoffConfig, build, random)]

\* backoff.Retry after the operation returned
CheckOn(st, build, random, ctxDone) ==
    CASE st.opRet = "nil" -> [st EXCEPT !.retryErr = NilErr, !.rpc = "return"]
      [] st.opRet = "permanent" -> [st EXCEPT !.retryErr = st.lastErr, !.rpc = "return"]
      [] st.opRet = "retry" /\ ctxDone -> [st EXCEPT !.retryErr = CtxCanceled, !.rpc = "return"]
      [] OTHER ->
           LimitOrTimerOn(NextBackOffOn(st, build, random))

\* the select of backoff.Retry: the timer fires
TimerOn(st) == [st EXCEPT !.elapsed = AfterTimer(@, st.next), !.rpc = "operation"]

\* the select of backoff.Retry: ctx.Done() is ready
CtxDoneOn(st) == [st EXCEPT !.retryErr = CtxCanceled, !.rpc = "return"]

\* the end of retryWithBackoff
ReturnOn(st) ==
    [st EXCEPT !.retResult = IF st.retryErr # NilErr
                             THEN MaxRetriesError(st.attempt, st.lastErr) ELSE NilErr,
               !.rpc = "done"]

----------------------------------------------------------------------------
\* Concurrent calls of retryWithBackoff, each for a request of its own: an
\* operation and a context of its own. The calls run in one address space:
\* the ExponentialBackOff objects live on the heap and a call reaches its
\* object through the pointer it holds in backoffConfig; lastErr, attempt
\* and what backoff.Retry keeps are variables of the invocation.

\* how many calls run concurrently, and how often each invokes its operation
NumCalls == 2
ConcAttempts == 2

Calls == 1..NumCalls

\* one ExponentialBackOff for every call, as a package-level variable would be
NewExponentialBackOffShared(h) == 1

\* backoff.NewExponentialBackOff() returns &ExponentialBackOff{...}: the
\* address of an object that was not on the heap h before
NewExponentialBackOff(h) == Len(h) + 1

\* the variables of an invocation of retryWithBackoff before its first
\* statement: backoffConfig is a nil pointer
NewFrame ==
    [rpc |-> "start", backoffConfig |-> 0, attempt |-> 0, lastErr |-> NilErr, opRet |-> "nil",
     elapsed |-> Duration(0, 0, 0), nominal |-> Duration(0, 0, 0), next |-> Duration(0, 0, 0),
     retryErr |-> NilErr, retResult |-> NilErr, ctxDone |-> FALSE]

IdleConc ==
    /\ frames = [i \in Calls |-> [NewFrame EXCEPT !.rpc = "idle"]]
    /\ heap = <<>>
    /\ solo = [i \in Calls |-> NewRetryState]

InitConc ==
    /\ frames = [i \in Calls |-> NewFrame]
    /\ heap = <<>>
    /\ solo = [i \in Calls |-> NewRetryState]

\* the start of retryWithBackoff: the backoff is constructed, configured and
\* reset through the pointer, lastErr and attempt are declared
ConcEnter(i) ==
    /\ frames[i].rpc = "start"
    /\ heap' = IF NewExponentialBackOff(heap) > Len(heap)
               THEN Append(heap, NewBackoffConfig)
               ELSE [heap EXCEPT ![NewExponentialBackOff(heap)] = NewBackoffConfig]
    /\ frames' = [frames EXCEPT ![i].backoffConfig = NewExponentialBackOff(heap),
                                ![i].rpc = "operation"]
    /\ UNCHANGED solo

\* operationWithLogging of the i-th call: attempt and lastErr are the
\* variables of the call, the override is written through backoffConfig
ConcInvoke(i) ==
    /\ frames[i].rpc = "operation"
    /\ frames[i].attempt < ConcAttempts
    /\ \E err \in ConcOutcomes, d \in OpDurations :
         /\ frames' = [frames EXCEPT ![i].attempt = @ + 1,
                                     ![i].lastErr = IF err = NilErr THEN @ ELSE err,
                                     ![i].opRet = Classify(err),
                                     ![i].elapsed = Since(@, d),
                                     ![i].rpc = "check"]
         /\ heap' = IF Positive(apiWaitTimeOf[err])
                    THEN [heap EXCEPT ![frames[i].backoffConfig] =
                                          OverrideBackoff(@, apiWaitTimeOf[err])]
                    ELSE heap
         /\ solo' = [solo EXCEPT ![i] = InvokeOn(@, err, d)]

\* backoff.Retry of the i-th call takes wait from NextBackOff, which has
\* left the interval cur in the backoff the call points to
ConcWait(i, wait, cur) ==
    /\ heap' = [heap EXCEPT ![frames[i].backoffConfig].currentInterval = cur]
    /\ frames' = [frames EXCEPT
                     ![i].nominal = CurrentInterval(heap[frames[i].backoffConfig]),
                     ![i].next = wait,
                     ![i].retryErr = IF RetriesEnd(frames[i].elapsed, wait)
                                     THEN frames[i].lastErr ELSE @,
                     ![i].rpc = IF RetriesEnd(frames[i].elapsed, wait)
                                THEN "return" ELSE "waiting"]

\* backoff.Retry of the i-th call ends with the error err
ConcEnd(i, err) ==
    /\ frames' = [frames EXCEPT ![i].retryErr = err, ![i].rpc = "return"]
    /\ UNCHANGED heap

\* backoff.Retry of the i-th call after its operation returned
ConcCheck(i) ==
    /\ frames[i].rpc = "check"
    /\ \E build \in Builds, random \in RandomSamples :
         /\ CASE frames[i].opRet = "nil" -> ConcEnd(i, NilErr)
              [] frames[i].opRet = "permanent" -> ConcEnd(i, frames[i].lastErr)
              [] frames[i].opRet = "retry" /\ frames[i].ctxDone -> ConcEnd(i, CtxCanceled)
              [] OTHER ->
                   ConcWait(i, NextOf(heap[frames[i].backoffConfig], build, random),
                               IncrementOf(heap[frames[i].backoffConfig], build))
         /\ solo' = [solo EXCEPT ![i] = CheckOn(@, build, random, frames[i].ctxDone)]

\* the select of backoff.Retry in the i-th call: its timer fires
ConcTimerFires(i) ==
    /\ frames[i].rpc = "waiting"
    /\ frames' = [frames EXCEPT ![i].elapsed = AfterTimer(@, frames[i].next),
                                ![i].rpc = "operation"]
    /\ solo' = [solo EXCEPT ![i] = TimerOn(@)]
    /\ UNCHANGED heap

\* the select of backoff.Retry in the i-th call: the Done channel of its
\* context is ready
ConcCtxDone(i) ==
    /\ frames[i].rpc = "waiting"
    /\ frames[i].ctxDone
    /\ ConcEnd(i, CtxCanceled)
    /\ solo' = [solo EXCEPT ![i] = CtxDoneOn(@)]

\* the end of retryWithBackoff in the i-th call
ConcReturn(i) ==
    /\ frames[i].rpc = "return"
    /\ frames' = [frames EXCEPT
                     ![i].retResult = IF frames[i].retryErr # NilErr
                                      THEN MaxRetriesError(frames[i].attempt, frames[i].lastErr)
                                      ELSE NilErr,
                     ![i].rpc = "done"]
    /\ solo' = [solo EXCEPT ![i] = ReturnOn(@)]
    /\ UNCHANGED heap

\* the caller of the i-th call cancels the context of its request
ConcCancel(i) ==
    /\ frames[i].rpc \in {"check", "waiting"}
    /\ ~frames[i].ctxDone
    /\ frames' = [frames EXCEPT ![i].ctxDone = TRUE]
    /\ UNCHANGED <<heap, solo>>

ConcStep ==
    \E i \in Calls :
       \/ ConcEnter(i) \/ ConcInvoke(i) \/ ConcCheck(i) \/ ConcTimerFires(i)
       \/ ConcCtxDone(i) \/ ConcReturn(i) \/ ConcCancel(i)

----------------------------------------------------------------------------
\* Two calls whose outcomes differ in the quota details only

IdleTwin == twin = NewRetryState

\* the operation of the call returns err, the operation of the twin the same
\* error without its quota details
QuotaOperation ==
    /\ attempt < AttemptBound
    /\ \E err \in QuotaOutcomes, d \in OpDurations :
         /\ Invoke(err, d)
         /\ twin' = InvokeOn(twin, StripQuota(err), d)

QuotaCheck ==
    \E build \in Builds, random \in RandomSamples :
        Check(build, random) /\ twin' = CheckOn(twin, build, random, cancelled)

QuotaTimerFires == TimerFires /\ twin' = TimerOn(twin)

QuotaCtxDone == CtxDone /\ twin' = CtxDoneOn(twin)

QuotaReturn == RetryReturn /\ twin' = ReturnOn(twin)

QuotaCancel == Cancel /\ UNCHANGED twin

QuotaStep ==
    \/ QuotaOperation \/ QuotaCheck \/ QuotaTimerFires \/ QuotaCtxDone \/ QuotaReturn
    \/ QuotaCancel

----------------------------------------------------------------------------
\* extractFirstJSON

MaxTextLen == 5

BraceAlphabet == {"{", "}", "a"}

\* every text of at most MaxTextLen characters over the alphabet
BraceTexts == UNION { [1..k -> BraceAlphabet] : k \in 0..MaxTextLen }

\* strings.Index(s, "{"), 1-based, 0 when there is none
IndexOpen(s) ==
    LET hits == { i \in DOMAIN s : s[i] = "{" }
    IN IF hits = {} THEN 0 ELSE CHOOSE i \in hits : \A j \in hits : i <= j

RECURSIVE ScanBraces(_, _, _, _)
\* the loop of extractFirstJSON at position i with the depth reached so far
ScanBraces(s, start, i, depth) ==
    IF i > Len(s) THEN <<>>
    ELSE IF s[i] = "{" THEN ScanBraces(s, start, i + 1, depth + 1)
    ELSE IF s[i] = "}"
         THEN IF depth - 1 = 0 THEN SubSeq(s, start, i)
              ELSE ScanBraces(s, start, i + 1, depth - 1)
    ELSE ScanBraces(s, start, i + 1, depth)

\* extractFirstJSON that stops at the first closing brace
extractFirstJSONFirstClose(s) ==
    LET start == IndexOpen(s)
        closes == { i \in DOMAIN s : i > start /\ s[i] = "}" }
    IN IF start = 0 \/ closes = {} THEN <<>>
       ELSE SubSeq(s, start, CHOOSE i \in closes : \A j \in closes : i <= j)

\* extractFirstJSON that answers the unclosed rest of the text
extractFirstJSONUnclosed(s) ==
    LET start == IndexOpen(s)
    IN IF start = 0 THEN <<>>
       ELSE IF ScanBraces(s, start, start, 0) = <<>> THEN SubSeq(s, start, Len(s))
       ELSE ScanBraces(s, start, start, 0)

extractFirstJSON(s) ==
    LET start == IndexOpen(s)
    IN IF start = 0 THEN <<>> ELSE ScanBraces(s, start, start, 0)

InitExtract ==
    /\ exPc = "call"
    /\ exIn \in BraceTexts
    /\ exOut = NoText

Extract ==
    /\ exPc = "call"
    /\ exOut' = extractFirstJSON(exIn)
    /\ exPc' = "returned"
    /\ UNCHANGED exIn

ExtractStep == Extract

----------------------------------------------------------------------------
\* encoding/json for AIAnalysisResult, concatCandidates, strings.TrimSpace

Quote == "\""
Backslash == "\\"

\* the white space json skips between tokens
JSONSpace == {" ", "\t", "\n", "\r"}

\* the white space strings.TrimSpace cuts: the six characters of ASCII
\* (the vertical tab is U+000B) and the characters beyond ASCII for which
\* unicode.IsSpace holds
TrimSet ==
    {" ", "\t", "\n", "\r", "\f", "\\u000b",
     "\\u0085", "\\u00a0", "\\u1680",
     "\\u2000", "\\u2001", "\\u2002", "\\u2003", "\\u2004", "\\u2005",
     "\\u2006", "\\u2007", "\\u2008", "\\u2009", "\\u200a",
     "\\u2028", "\\u2029", "\\u202f", "\\u205f", "\\u3000"}

HexDigits == {"0","1","2","3","4","5","6","7","8","9",
              "a","b","c","d","e","f","A","B","C","D","E","F"}

RECURSIVE TrimLeft(_)
TrimLeft(s) == IF s # <<>> /\ Head(s) \in TrimSet THEN TrimLeft(Tail(s)) ELSE s

RECURSIVE TrimRight(_)
TrimRight(s) ==
    IF s # <<>> /\ s[Len(s)] \in TrimSet THEN TrimRight(SubSeq(s, 1, Len(s) - 1)) ELSE s

\* strings.TrimSpace
TrimSpace(s) == TrimRight(TrimLeft(s))

\* AIAnalysisResult with the text as characters
ZeroObj == [Text |-> <<>>, Promote |-> FALSE, Confidence |-> 0]

ErrSyntax == "json: syntax error"
ErrType == "json: cannot unmarshal"

\* what a scan answers when the text is no json
Bad == [ok |-> FALSE, next |-> 0, kind |-> "invalid", val |-> <<>>]

RECURSIVE SkipSpace(_, _)
\* the first position from i on that holds no white space
SkipSpace(s, i) == IF i <= Len(s) /\ s[i] \in JSONSpace THEN SkipSpace(s, i + 1) ELSE i

RECURSIVE SkipDigits(_, _)
\* the first position from i on that holds no digit
SkipDigits(s, i) == IF i <= Len(s) /\ IsDigit(s[i]) THEN SkipDigits(s, i + 1) ELSE i

\* the character an escape letter stands for; backspace is written \b
Unescape(c) ==
    CASE c = "n" -> "\n"
      [] c = "t" -> "\t"
      [] c = "r" -> "\r"
      [] c = "f" -> "\f"
      [] c = "b" -> "\\b"
      [] OTHER -> c

\* the characters with the code points 32 to 126, in their order; the grave
\* accent, which a string here cannot hold, is written by its code point
AsciiPrintable ==
    <<" ","!","\"","#","$","%","&","'","(",")","*","+",",","-",".","/",
      "0","1","2","3","4","5","6","7","8","9",":",";","<","=",">","?",
      "@","A","B","C","D","E","F","G","H","I","J","K","L","M","N","O",
      "P","Q","R","S","T","U","V","W","X","Y","Z","[","\\","]","^","_",
      "\\u0060","a","b","c","d","e","f","g","h","i","j","k","l","m","n","o",
      "p","q","r","s","t","u","v","w","x","y","z","{","|","}","~">>

HexLower == <<"0","1","2","3","4","5","6","7","8","9","a","b","c","d","e","f">>
HexUpper == <<"0","1","2","3","4","5","6","7","8","9","A","B","C","D","E","F">>

\* the value of a hexadecimal digit
HexVal(c) == CHOOSE v \in 0..15 : c = HexLower[v + 1] \/ c = HexUpper[v + 1]

\* four hexadecimal digits from position i on
IsHex4(s, i) == i + 3 <= Len(s) /\ \A k \in i..(i + 3) : s[k] \in HexDigits

RECURSIVE CodePoint(_)
\* getu4: the code point the hexadecimal digits q write
CodePoint(q) ==
    IF q = <<>> THEN 0
    ELSE 16 * CodePoint(SubSeq(q, 1, Len(q) - 1)) + HexVal(q[Len(q)])

\* the one element that stands for a character a string here cannot hold:
\* its code point in lower-case hexadecimal
Escaped(code) ==
    "\\u" \o HexLower[(code \div 4096) + 1] \o HexLower[((code \div 256) % 16) + 1]
          \o HexLower[((code \div 16) % 16) + 1] \o HexLower[(code % 16) + 1]

\* the character with a code point
RuneOf(code) ==
    IF code >= 32 /\ code <= 126 THEN AsciiPrintable[code - 31]
    ELSE CASE code = 8 -> "\\b"
           [] code = 9 -> "\t"
           [] code = 10 -> "\n"
           [] code = 12 -> "\f"
           [] code = 13 -> "\r"
           [] OTHER -> Escaped(code)

\* utf16.IsSurrogate and the two halves of a surrogate pair
IsSurrogate(code) == code >= 55296 /\ code <= 57343
IsHighSurrogate(code) == code >= 55296 /\ code <= 56319
IsLowSurrogate(code) == code >= 56320 /\ code <= 57343

\* unicode.ReplacementChar
ReplacementChar == 65533

\* the 32 characters below 0x20, which a json string may not hold unescaped
ControlChars == { RuneOf(code) : code \in 0..31 }

\* the character one or two \uXXXX escapes denote and the length of what is
\* read: rr is the code point of the first, rr1 of the one that follows it,
\* -1 when none does. Two escapes that form a surrogate pair denote one
\* character; a surrogate without its partner denotes U+FFFD.
DecodeRune[rr \in Nat, rr1 \in Nat \cup {-1}] ==
    IF ~IsSurrogate(rr) THEN [char |-> RuneOf(rr), len |-> 6]
    ELSE IF IsHighSurrogate(rr) /\ rr1 # -1 /\ IsLowSurrogate(rr1)
         THEN [char |-> Escaped(rr) \o Escaped(rr1), len |-> 12]
    ELSE [char |-> Escaped(ReplacementChar), len |-> 6]

\* a \uXXXX escape at the head of the text t, the backslash first
ScanUnicodeEscape[t \in Seq(STRING)] ==
    DecodeRune[CodePoint(SubSeq(t, 3, 6)),
               IF Len(t) >= 8 /\ t[7] = Backslash /\ t[8] = "u" /\ IsHex4(t, 9)
               THEN CodePoint(SubSeq(t, 9, 12)) ELSE -1]

RECURSIVE ScanString(_, _, _)
\* the rest of a string after the \uXXXX escape at position i
AfterUnicodeEscape[s \in Seq(STRING), i \in Nat, acc \in Seq(STRING)] ==
    ScanString(s, i + ScanUnicodeEscape[SubSeq(s, i, Len(s))].len,
               Append(acc, ScanUnicodeEscape[SubSeq(s, i, Len(s))].char))

\* a string whose opening quote is before position i; acc is its value so far
ScanString(s, i, acc) ==
    IF i > Len(s) THEN Bad
    ELSE IF s[i] = Quote
         THEN [ok |-> TRUE, next |-> i + 1, kind |-> "string", val |-> acc]
    ELSE IF s[i] = Backslash
         THEN IF i + 1 > Len(s) THEN Bad
              ELSE IF s[i + 1] \in {Quote, Backslash, "/", "b", "f", "n", "r", "t"}
                   THEN ScanString(s, i + 2, Append(acc, Unescape(s[i + 1])))
              ELSE IF s[i + 1] = "u"
                   THEN IF IsHex4(s, i + 2) THEN AfterUnicodeEscape[s, i, acc] ELSE Bad
              ELSE Bad
    ELSE IF s[i] \in ControlChars THEN Bad
    ELSE ScanString(s, i + 1, Append(acc, s[i]))

RECURSIVE DigitsValue(_, _, _, _)
\* the number written by the digits s[i..j-1], from accumulator acc
DigitsValue(s, i, j, acc) ==
    IF i >= j THEN acc ELSE DigitsValue(s, i + 1, j, acc * 10 + DigitVal(s[i]))

\* longest numeral whose value is computed; the value of a longer one is
\* kept as its digits
MaxIntDigits == 9

RECURSIVE DigitsLeq(_, _)
\* a <= b for two numerals of the same length
DigitsLeq(a, b) ==
    IF a = <<>> THEN TRUE
    ELSE IF Head(a) # Head(b) THEN DigitVal(Head(a)) < DigitVal(Head(b))
    ELSE DigitsLeq(Tail(a), Tail(b))

\* a <= b for two numerals without leading zeros
NumeralLeq(a, b) == Len(a) < Len(b) \/ (Len(a) = Len(b) /\ DigitsLeq(a, b))

\* strconv.ParseInt(_, 10, 64) succeeds on a numeral without fraction and
\* exponent: the value lies between math.MinInt64 and math.MaxInt64
FitsInt64(neg, digits) ==
    NumeralLeq(digits, IF neg THEN MinInt64Digits ELSE MaxInt64Digits)

\* the int a numeral is stored as: the number itself up to MaxIntDigits
\* digits, beyond that the numeral under the label int64
IntValue(neg, digits) ==
    IF Len(digits) <= MaxIntDigits
    THEN (IF neg THEN 0 - 1 ELSE 1) * DigitsValue(digits, 1, Len(digits) + 1, 0)
    ELSE [int64 |-> (IF neg THEN <<"-">> ELSE <<>>) \o digits]

\* a number that starts at position i; isInt says that it can be stored in
\* an int: no fraction, no exponent, within 64 bits
ScanNumber(s, i) ==
    LET neg == s[i] = "-"
        first == IF neg THEN i + 1 ELSE i
        intEnd == IF first <= Len(s) /\ s[first] = "0" THEN first + 1 ELSE SkipDigits(s, first)
        hasFrac == intEnd <= Len(s) /\ s[intEnd] = "."
        fracEnd == IF hasFrac THEN SkipDigits(s, intEnd + 1) ELSE intEnd
        hasExp == fracEnd <= Len(s) /\ s[fracEnd] \in {"e", "E"}
        expStart == IF hasExp /\ fracEnd + 1 <= Len(s) /\ s[fracEnd + 1] \in {"+", "-"}
                    THEN fracEnd + 2 ELSE fracEnd + 1
        expEnd == IF hasExp THEN SkipDigits(s, expStart) ELSE fracEnd
        digits == SubSeq(s, first, intEnd - 1)
        isInt == ~hasFrac /\ ~hasExp /\ FitsInt64(neg, digits)
    IN IF intEnd = first THEN Bad
       ELSE IF hasFrac /\ fracEnd = intEnd + 1 THEN Bad
       ELSE IF hasExp /\ expEnd = expStart THEN Bad
       ELSE [ok |-> TRUE, next |-> expEnd, kind |-> "number",
             val |-> [isInt |-> isInt, int |-> IF isInt THEN IntValue(neg, digits) ELSE 0]]

StartsWith(s, i, w) == i + Len(w) - 1 <= Len(s) /\ SubSeq(s, i, i + Len(w) - 1) = w

\* true, false or null at position i
ScanLiteral(s, i) ==
    IF StartsWith(s, i, <<"t","r","u","e">>)
    THEN [ok |-> TRUE, next |-> i + 4, kind |-> "bool", val |-> TRUE]
    ELSE IF StartsWith(s, i, <<"f","a","l","s","e">>)
    THEN [ok |-> TRUE, next |-> i + 5, kind |-> "bool", val |-> FALSE]
    ELSE IF StartsWith(s, i, <<"n","u","l","l">>)
    THEN [ok |-> TRUE, next |-> i + 4, kind |-> "null", val |-> <<>>]
    ELSE Bad

RECURSIVE ScanValue(_, _)
RECURSIVE ScanMembers(_, _, _)
RECURSIVE ScanElements(_, _)

\* a value that starts at position i; the val of an object is its entries
ScanValue(s, i) ==
    IF i > Len(s) THEN Bad
    ELSE IF s[i] = "{"
         THEN LET j == SkipSpace(s, i + 1)
              IN IF j <= Len(s) /\ s[j] = "}"
                 THEN [ok |-> TRUE, next |-> j + 1, kind |-> "object", val |-> <<>>]
                 ELSE ScanMembers(s, j, <<>>)
    ELSE IF s[i] = "["
         THEN LET j == SkipSpace(s, i + 1)
              IN IF j <= Len(s) /\ s[j] = "]"
                 THEN [ok |-> TRUE, next |-> j + 1, kind |-> "array", val |-> <<>>]
                 ELSE ScanElements(s, j)
    ELSE IF s[i] = Quote THEN ScanString(s, i + 1, <<>>)
    ELSE IF s[i] = "-" \/ IsDigit(s[i]) THEN ScanNumber(s, i)
    ELSE ScanLiteral(s, i)

\* the entries of an object from the key at position i on; acc holds the earlier ones
ScanMembers(s, i, acc) ==
    IF i > Len(s) \/ s[i] # Quote THEN Bad
    ELSE LET k == ScanString(s, i + 1, <<>>)
         IN IF ~k.ok THEN Bad
            ELSE LET c == SkipSpace(s, k.next)
                 IN IF c > Len(s) \/ s[c] # ":" THEN Bad
                    ELSE LET v == ScanValue(s, SkipSpace(s, c + 1))
                         IN IF ~v.ok THEN Bad
                            ELSE LET e == SkipSpace(s, v.next)
                                     entries == Append(acc, [key |-> k.val, kind |-> v.kind,
                                                             val |-> v.val])
                                 IN IF e > Len(s) THEN Bad
                                    ELSE IF s[e] = "}"
                                         THEN [ok |-> TRUE, next |-> e + 1, kind |-> "object",
                                               val |-> entries]
                                    ELSE IF s[e] = ","
                                         THEN ScanMembers(s, SkipSpace(s, e + 1), entries)
                                    ELSE Bad

\* the elements of an array from the value at position i on
ScanElements(s, i) ==
    LET v == ScanValue(s, i)
    IN IF ~v.ok THEN Bad
       ELSE LET e == SkipSpace(s, v.next)
            IN IF e > Len(s) THEN Bad
               ELSE IF s[e] = "]"
                    THEN [ok |-> TRUE, next |-> e + 1, kind |-> "array", val |-> <<>>]
               ELSE IF s[e] = ","
                    THEN ScanElements(s, SkipSpace(s, e + 1))
               ELSE Bad

\* the whole text read as one json value
ScanDocument(data) ==
    LET v == ScanValue(data, SkipSpace(data, 1))
    IN IF v.ok /\ SkipSpace(data, v.next) > Len(data) THEN v ELSE Bad

\* the field of AIAnalysisResult a key names, "" when it names none
FieldOfKey(key) ==
    LET k == FoldKey(key)
    IN IF k = <<"t","e","x","t">> THEN "Text"
       ELSE IF k = <<"p","r","o","m","o","t","e">> THEN "Promote"
       ELSE IF k = <<"c","o","n","f","i","d","e","n","c","e">> THEN "Confidence"
       ELSE ""

\* one entry stored into the record: a null and an unknown key change
\* nothing, a value of another type is an error and changes nothing
StoreEntry(r, m) ==
    LET f == FieldOfKey(m.key)
    IN IF f = "" \/ m.kind = "null" THEN r
       ELSE IF f = "Text" /\ m.kind = "string"
            THEN [r EXCEPT !.obj.Text = m.val]
       ELSE IF f = "Promote" /\ m.kind = "bool"
            THEN [r EXCEPT !.obj.Promote = m.val]
       ELSE IF f = "Confidence" /\ m.kind = "number" /\ m.val.isInt
            THEN [r EXCEPT !.obj.Confidence = m.val.int]
       ELSE [r EXCEPT !.err = IF r.err = NoErr THEN ErrType ELSE r.err]

RECURSIVE StoreEntries(_, _)
\* the entries stored in their order; the first error is kept, the rest goes on
StoreEntries(r, entries) ==
    IF entries = <<>> THEN r
    ELSE StoreEntries(StoreEntry(r, Head(entries)), Tail(entries))

\* json.Unmarshal(data, &v) for an AIAnalysisResult v: the error and the record
UnmarshalResult(data, v) ==
    LET doc == ScanDocument(data)
    IN IF ~doc.ok THEN [err |-> ErrSyntax, obj |-> v]
       ELSE IF doc.kind = "null" THEN [err |-> NoErr, obj |-> v]
       ELSE IF doc.kind # "object" THEN [err |-> ErrType, obj |-> v]
       ELSE StoreEntries([err |-> NoErr, obj |-> v], doc.val)

\* genai.GenerateContentResponse
NilResp == [isNil |-> TRUE, Candidates |-> <<>>]
NilContent == [isNil |-> TRUE, Parts |-> <<>>]

Part(t) == [Text |-> t]
Candidate(ts) == [Content |-> [isNil |-> FALSE, Parts |-> [i \in DOMAIN ts |-> Part(ts[i])]]]
Response(cands) == [isNil |-> FALSE, Candidates |-> cands]

RECURSIVE ConcatParts(_)
ConcatParts(parts) ==
    IF parts = <<>> THEN <<>>
    ELSE (IF Head(parts).Text # <<>> THEN Head(parts).Text ELSE <<>>)
            \o ConcatParts(Tail(parts))

RECURSIVE ConcatCands(_)
ConcatCands(cands) ==
    IF cands = <<>> THEN <<>>
    ELSE ConcatParts(Head(cands).Content.Parts) \o ConcatCands(Tail(cands))

\* concatCandidates: the text, or the panic of reading the parts of a nil content
concatCandidates(r) ==
    IF r.isNil THEN [panic |-> FALSE, text |-> <<>>]
    ELSE IF \E i \in DOMAIN r.Candidates : r.Candidates[i].Content.isNil
         THEN [panic |-> TRUE, text |-> <<>>]
    ELSE [panic |-> FALSE, text |-> ConcatCands(r.Candidates)]

\* the texts the model answers with

\* a decision object and nothing else
TextValid ==
    <<"{", "\"", "t", "e", "x", "t", "\"", ":", "\"", "o", "k", "\"", ",", "\"",
      "p", "r", "o", "m", "o", "t", "e", "\"", ":", "t", "r", "u", "e", ",",
      "\"", "c", "o", "n", "f", "i", "d", "e", "n", "c", "e", "\"", ":", "8",
      "0", "}">>

\* a decision object between prose
TextInProse ==
    <<"H", "e", "r", "e", " ", "i", "s", " ", "t", "h", "e", " ", "r", "e",
      "s", "u", "l", "t", ":", " ", "{", "\"", "t", "e", "x", "t", "\"", ":",
      "\"", "o", "k", "\"", ",", "\"", "p", "r", "o", "m", "o", "t", "e", "\"",
      ":", "t", "r", "u", "e", ",", "\"", "c", "o", "n", "f", "i", "d", "e",
      "n", "c", "e", "\"", ":", "8", "0", "}", " ", "t", "h", "a", "n", "k",
      "s">>

\* a decision object between white space, confidence above 100
TextPadded ==
    <<" ", "{", "\"", "t", "e", "x", "t", "\"", ":", "\"", "n", "o", "\"", ",",
      "\"", "p", "r", "o", "m", "o", "t", "e", "\"", ":", "f", "a", "l", "s",
      "e", ",", "\"", "c", "o", "n", "f", "i", "d", "e", "n", "c", "e", "\"",
      ":", "1", "5", "0", "}", "\n">>

\* prose without a brace
TextNoObject ==
    <<"n", "o", "t", " ", "j", "s", "o", "n">>

\* an object that is never closed
TextUnclosed ==
    <<"s", "o", " ", "{", "\"", "t", "e", "x", "t", "\"", ":", "\"", "o", "k",
      "\"">>

\* an object whose confidence is a string
TextWrongType ==
    <<"{", "\"", "t", "e", "x", "t", "\"", ":", "\"", "b", "a", "d", "\"", ",",
      "\"", "p", "r", "o", "m", "o", "t", "e", "\"", ":", "t", "r", "u", "e",
      ",", "\"", "c", "o", "n", "f", "i", "d", "e", "n", "c", "e", "\"", ":",
      "\"", "h", "i", "g", "h", "\"", "}">>

\* a decision object in prose whose text holds a closing brace
TextBraceInString ==
    <<"R", "e", "s", "u", "l", "t", ":", " ", "{", "\"", "t", "e", "x", "t",
      "\"", ":", "\"", "a", "}", "\"", ",", "\"", "p", "r", "o", "m", "o", "t",
      "e", "\"", ":", "t", "r", "u", "e", ",", "\"", "c", "o", "n", "f", "i",
      "d", "e", "n", "c", "e", "\"", ":", "8", "0", "}">>

\* an object without the promote entry
TextNoPromote ==
    <<"{", "\"", "t", "e", "x", "t", "\"", ":", "\"", "o", "k", "\"", ",", "\"",
      "c", "o", "n", "f", "i", "d", "e", "n", "c", "e", "\"", ":", "8", "0",
      "}">>

\* no text at all
TextEmpty ==
    <<>>

\* two objects in a row
TextTwoObjects ==
    <<"{", "\"", "t", "e", "x", "t", "\"", ":", "\"", "a", "\"", "}", " ", "{",
      "\"", "t", "e", "x", "t", "\"", ":", "\"", "b", "\"", ",", "\"", "p", "r",
      "o", "m", "o", "t", "e", "\"", ":", "t", "r", "u", "e", "}">>

\* keys in another case, an escape, a number that is no integer, an unknown entry
TextFoldedKeys ==
    <<"{", "\"", "T", "e", "x", "t", "\"", ":", "\"", "o", "\\", "\"", "k", "\"",
      ",", "\"", "P", "R", "O", "M", "O", "T", "E", "\"", ":", "t", "r", "u",
      "e", ",", "\"", "c", "o", "n", "f", "i", "d", "e", "n", "c", "e", "\"",
      ":", "8", "e", "1", ",", "\"", "x", "\"", ":", "[", "1", ",", "{", "\"",
      "y", "\"", ":", "n", "u", "l", "l", "}", "]", "}">>

\* the null literal
TextNull ==
    <<"n", "u", "l", "l">>

\* white space between the tokens, a negative confidence
TextNegative ==
    <<"{", " ", "\"", "t", "e", "x", "t", "\"", " ", ":", " ", "\"", "o", "k",
      "\"", ",", " ", "\"", "p", "r", "o", "m", "o", "t", "e", "\"", " ", ":",
      " ", "t", "r", "u", "e", ",", " ", "\"", "c", "o", "n", "f", "i", "d",
      "e", "n", "c", "e", "\"", " ", ":", " ", "-", "5", " ", "}">>

\* \u escapes in a key and in a value
TextUnicodeEscape ==
    <<"{", "\"", "t", "\\", "u", "0", "0", "6", "5", "x", "t", "\"", ":", "\"",
      "\\", "u", "0", "0", "4", "1", "\"", ",", "\"", "p", "r", "o", "m", "o",
      "t", "e", "\"", ":", "t", "r", "u", "e", ",", "\"", "c", "o", "n", "f",
      "i", "d", "e", "n", "c", "e", "\"", ":", "8", "0", "}">>

\* a confidence of ten digits
TextLargeConfidence ==
    <<"{", "\"", "t", "e", "x", "t", "\"", ":", "\"", "o", "k", "\"", ",", "\"",
      "p", "r", "o", "m", "o", "t", "e", "\"", ":", "t", "r", "u", "e", ",",
      "\"", "c", "o", "n", "f", "i", "d", "e", "n", "c", "e", "\"", ":", "1",
      "2", "3", "4", "5", "6", "7", "8", "9", "0", "}">>

\* a confidence beyond the range of an int
TextConfidenceOverflow ==
    <<"{", "\"", "t", "e", "x", "t", "\"", ":", "\"", "o", "k", "\"", ",", "\"",
      "p", "r", "o", "m", "o", "t", "e", "\"", ":", "t", "r", "u", "e", ",",
      "\"", "c", "o", "n", "f", "i", "d", "e", "n", "c", "e", "\"", ":", "9",
      "2", "2", "3", "3", "7", "2", "0", "3", "6", "8", "5", "4", "7", "7", "5",
      "8", "0", "8", "}">>

ModelTexts ==
    { TextValid,
      TextInProse,
      TextPadded,
      TextNoObject,
      TextUnclosed,
      TextWrongType,
      TextBraceInString,
      TextNoPromote,
      TextEmpty,
      TextTwoObjects,
      TextFoldedKeys,
      TextNull,
      TextNegative,
      TextUnicodeEscape,
      TextLargeConfidence,
      TextConfidenceOverflow }

\* the ways the model hands a text over: in one part, in parts of one
\* candidate with an empty part between them, in two candidates
ResponsesOf(t) ==
    LET h == Len(t) \div 2
    IN { Response(<<Candidate(<<t>>)>>),
         Response(<<Candidate(<<SubSeq(t, 1, h), <<>>, SubSeq(t, h + 1, Len(t))>>)>>),
         Response(<<Candidate(<<SubSeq(t, 1, h)>>), Candidate(<<SubSeq(t, h + 1, Len(t))>>)>>) }

Responses ==
    { NilResp, Response(<<>>), Response(<<[Content |-> NilContent]>>) }
    \cup UNION { ResponsesOf(t) : t \in ModelTexts }

----------------------------------------------------------------------------
\* analyzeLogsWithAI, one action per step

NoRet == [returned |-> FALSE]

IdleAnalyze ==
    /\ anPc = "idle"
    /\ anResp = NilResp
    /\ anTxt = NoText
    /\ anRawJSON = NoText
    /\ anObj = ZeroObj
    /\ anParseErr = NoErr
    /\ anParses = <<>>
    /\ anExtracts = <<>>
    /\ anRet = NoRet

InitAnalyze ==
    /\ anPc = "getSecretValue"
    /\ anResp = NilResp
    /\ anTxt = NoText
    /\ anRawJSON = NoText
    /\ anObj = ZeroObj
    /\ anParseErr = NoErr
    /\ anParses = <<>>
    /\ anExtracts = <<>>
    /\ anRet = NoRet

\* return "", AIAnalysisResult{}, err
ReturnErr(err) ==
    /\ anRet' = [returned |-> TRUE, rawJSON |-> NoText, result |-> ZeroObj, err |-> err]
    /\ anPc' = "returned"

GetSecretValue ==
    /\ anPc = "getSecretValue"
    /\ \E ok \in BOOLEAN :
         IF ok THEN anPc' = "newClient" /\ UNCHANGED anRet
         ELSE ReturnErr("failed to get Google API key from secret")
    /\ UNCHANGED <<anResp, anTxt, anRawJSON, anObj, anParseErr, anParses, anExtracts>>

NewClient ==
    /\ anPc = "newClient"
    /\ \E ok \in BOOLEAN :
         IF ok THEN anPc' = "generateContent" /\ UNCHANGED anRet
         ELSE ReturnErr("failed to create client")
    /\ UNCHANGED <<anResp, anTxt, anRawJSON, anObj, anParseErr, anParses, anExtracts>>

\* retryWithBackoff around client.Models.GenerateContent
GenerateContent ==
    /\ anPc = "generateContent"
    /\ \/ /\ \E err \in {"max retries (3) exceeded", "non-retryable error"} : ReturnErr(err)
          /\ UNCHANGED anResp
       \/ /\ anResp' \in Responses
          /\ anPc' = "concatCandidates"
          /\ UNCHANGED anRet
    /\ UNCHANGED <<anTxt, anRawJSON, anObj, anParseErr, anParses, anExtracts>>

\* txt := concatCandidates(resp); rawJSON = strings.TrimSpace(txt)
ConcatCandidates ==
    /\ anPc = "concatCandidates"
    /\ IF concatCandidates(anResp).panic
       THEN anPc' = "panic" /\ UNCHANGED <<anTxt, anRawJSON>>
       ELSE /\ anTxt' = concatCandidates(anResp).text
            /\ anRawJSON' = TrimSpace(concatCandidates(anResp).text)
            /\ anPc' = "unmarshal"
    /\ UNCHANGED <<anResp, anObj, anParseErr, anParses, anExtracts, anRet>>

\* json.Unmarshal([]byte(rawJSON), &obj)
DirectParse ==
    /\ anPc = "unmarshal"
    /\ anParses' = Append(anParses, anRawJSON)
    /\ anObj' = UnmarshalResult(anRawJSON, ZeroObj).obj
    /\ anParseErr' = UnmarshalResult(anRawJSON, ZeroObj).err
    /\ anPc' = IF UnmarshalResult(anRawJSON, ZeroObj).err # NoErr
               THEN "extractFirstJSON" ELSE "return"
    /\ UNCHANGED <<anResp, anTxt, anRawJSON, anExtracts, anRet>>

\* if j := extractFirstJSON(rawJSON); j != "" { rawJSON = j
ExtractJSON ==
    /\ anPc = "extractFirstJSON"
    /\ anExtracts' = Append(anExtracts, anRawJSON)
    /\ IF extractFirstJSON(anRawJSON) # NoText
       THEN /\ anRawJSON' = extractFirstJSON(anRawJSON)
            /\ anPc' = "unmarshalExtracted"
       ELSE /\ anPc' = "return"
            /\ UNCHANGED anRawJSON
    /\ UNCHANGED <<anResp, anTxt, anObj, anParseErr, anParses, anRet>>

\* _ = json.Unmarshal([]byte(rawJSON), &obj) on the extracted text
ParseExtracted ==
    /\ anPc = "unmarshalExtracted"
    /\ anParses' = Append(anParses, anRawJSON)
    /\ anObj' = UnmarshalResult(anRawJSON, anObj).obj
    /\ anParseErr' = UnmarshalResult(anRawJSON, anObj).err
    /\ anPc' = "return"
    /\ UNCHANGED <<anResp, anTxt, anRawJSON, anExtracts, anRet>>

\* analyzeLogsWithAI that reports the text it could not parse
ReturnResultStrict ==
    /\ anPc = "return"
    /\ anRet' = [returned |-> TRUE, rawJSON |-> anRawJSON, result |-> anObj, err |-> anParseErr]
    /\ anPc' = "returned"
    /\ UNCHANGED <<anResp, anTxt, anRawJSON, anObj, anParseErr, anParses, anExtracts>>

\* return rawJSON, obj, nil
ReturnResult ==
    /\ anPc = "return"
    /\ anRet' = [returned |-> TRUE, rawJSON |-> anRawJSON, result |-> anObj, err |-> NoErr]
    /\ anPc' = "returned"
    /\ UNCHANGED <<anResp, anTxt, anRawJSON, anObj, anParseErr, anParses, anExtracts>>

AnalyzeStep ==
    \/ GetSecretValue \/ NewClient \/ GenerateContent \/ ConcatCandidates
    \/ DirectParse \/ ExtractJSON \/ ParseExtracted \/ ReturnResult

----------------------------------------------------------------------------
\* splitLogs on its own

MaxPieces == 3

\* the start of the stable marker and the rest of the canary marker after the
\* dashes the two markers have in common
MarkerStart == <<"-","-","-"," ","S","T">>
CanaryRest == <<" ","C","A","N","A","R","Y"," ","L","O","G","S"," ","-","-","-">>

\* what the texts are made of
Pieces == { stableMarker, canaryMarker, <<"x">>, <<"\n">>, MarkerStart, CanaryRest }

RECURSIVE Flatten(_)
Flatten(ps) == IF ps = <<>> THEN <<>> ELSE Head(ps) \o Flatten(Tail(ps))

\* every text of at most MaxPieces pieces
SplitTexts == { Flatten(ps) : ps \in UNION { [1..k -> Pieces] : k \in 0..MaxPieces } }

NoSplit == [stable |-> NoText, canary |-> NoText]

InitSplit ==
    /\ spPc = "call"
    /\ spIn \in SplitTexts
    /\ spOut = NoSplit

\* one call of splitLogs: it returns the two texts, or panics on the slice
Split ==
    /\ spPc = "call"
    /\ IF splitLogs(spIn).panic
       THEN spPc' = "panicked" /\ UNCHANGED spOut
       ELSE /\ spPc' = "returned"
            /\ spOut' = [stable |-> splitLogs(spIn).stable, canary |-> splitLogs(spIn).canary]
    /\ UNCHANGED spIn

SplitStep == Split

----------------------------------------------------------------------------
\* The log context on its way from Run to splitLogs

MaxLogPieces == 2

\* what the pod logs are made of
LogPieces == { stableMarker, canaryMarker, <<"x">>, <<"\n">> }

\* every pod log of at most MaxLogPieces pieces
PodLogs == { Flatten(ps) : ps \in UNION { [1..k -> LogPieces] : k \in 0..MaxLogPieces } }

IdleRound ==
    /\ rtPc = "idle"
    /\ rtStable = NoText /\ rtCanary = NoText /\ rtCtx = NoText
    /\ rtOut = NoSplit

InitRound ==
    /\ rtPc = "build"
    /\ rtStable \in PodLogs /\ rtCanary \in PodLogs
    /\ rtCtx = NoText
    /\ rtOut = NoSplit

\* Run: logsContext := "--- STABLE LOGS ---\n" + stableLogs + "\n\n--- CANARY LOGS ---\n" + canaryLogs
BuildContext ==
    /\ rtPc = "build"
    /\ rtCtx' = BuildLogsContext(rtStable, rtCanary)
    /\ rtPc' = "split"
    /\ UNCHANGED <<rtStable, rtCanary, rtOut>>

\* analyzeWithKubernetesAgent: stableLogs, canaryLogs := splitLogs(logsContext)
SplitContext ==
    /\ rtPc = "split"
    /\ IF splitLogs(rtCtx).panic
       THEN rtPc' = "panicked" /\ UNCHANGED rtOut
       ELSE /\ rtPc' = "sent"
            /\ rtOut' = [stable |-> splitLogs(rtCtx).stable, canary |-> splitLogs(rtCtx).canary]
    /\ UNCHANGED <<rtStable, rtCanary, rtCtx>>

RoundStep == BuildContext \/ SplitContext

----------------------------------------------------------------------------
\* Specifications

\* the Run variables while only retryWithBackoff is exercised
IdleRun == InitRun /\ pluginCfg = [present |-> FALSE, valid |-> TRUE, obj |-> EmptyObj]
IdleExtract == exPc = "idle" /\ exIn = NoText /\ exOut = NoText
IdleSplit == spPc = "idle" /\ spIn = NoText /\ spOut = NoSplit

Init == InitRun /\ InitRetry /\ IdleExtract /\ IdleAnalyze /\ IdleSplit /\ IdleRound /\ IdleTwin /\ IdleConc
Next == RunStep /\ UNCHANGED <<retryVars, extractVars, analyzeVars, splitVars, roundVars, twinVars, concVars>>
Spec == Init /\ [][Next]_vars

InitR == IdleRun /\ InitRetry /\ IdleExtract /\ IdleAnalyze /\ IdleSplit /\ IdleRound /\ IdleTwin /\ IdleConc
NextR == RetryStep /\ UNCHANGED <<runVars, extractVars, analyzeVars, splitVars, roundVars, twinVars, concVars>>
SpecRetry == InitR /\ [][NextR]_vars

\* a call of retryWithBackoff and its twin, fed the same outcomes without
\* the quota details, under the same context
InitQ == IdleRun /\ InitRetry /\ IdleExtract /\ IdleAnalyze /\ IdleSplit /\ IdleRound /\ IdleTwin /\ IdleConc
NextQ == QuotaStep /\ UNCHANGED <<runVars, extractVars, analyzeVars, splitVars, roundVars, concVars>>
SpecQuota == InitQ /\ [][NextQ]_vars

\* concurrent calls of retryWithBackoff under every interleaving of their steps
InitC == IdleRun /\ InitRetry /\ IdleExtract /\ IdleAnalyze /\ IdleSplit /\ IdleRound /\ IdleTwin /\ InitConc
NextC == ConcStep /\ UNCHANGED <<runVars, retryVars, extractVars, analyzeVars, splitVars, roundVars, twinVars>>
SpecConcurrent == InitC /\ [][NextC]_vars

\* retryWithBackoff followed to its return, or up to LiveAttempts
\* invocations when it does not return, the context never cancelled:
\* the goroutine keeps running, every invocation of the operation returns
\* and a started timer fires
RetryLiveStep == OperationLive \/ RetryCheckLive \/ TimerFires \/ RetryReturn
NextL == RetryLiveStep /\ UNCHANGED <<runVars, extractVars, analyzeVars, splitVars, roundVars, twinVars, concVars>>
SpecRetryLive == InitR /\ [][NextL]_vars /\ WF_vars(NextL)

\* extractFirstJSON on every text over braces and one other character
InitX == IdleRun /\ InitRetry /\ InitExtract /\ IdleAnalyze /\ IdleSplit /\ IdleRound /\ IdleTwin /\ IdleConc
NextX == ExtractStep /\ UNCHANGED <<runVars, retryVars, analyzeVars, splitVars, roundVars, twinVars, concVars>>
SpecExtract == InitX /\ [][NextX]_vars

\* analyzeLogsWithAI on the responses of the model
InitA == IdleRun /\ InitRetry /\ IdleExtract /\ InitAnalyze /\ IdleSplit /\ IdleRound /\ IdleTwin /\ IdleConc
NextA == AnalyzeStep /\ UNCHANGED <<runVars, retryVars, extractVars, splitVars, roundVars, twinVars, concVars>>
SpecAnalyze == InitA /\ [][NextA]_vars

\* splitLogs on every text made of markers, parts of markers and log lines
InitS == IdleRun /\ InitRetry /\ IdleExtract /\ IdleAnalyze /\ InitSplit /\ IdleRound /\ IdleTwin /\ IdleConc
NextS == SplitStep /\ UNCHANGED <<runVars, retryVars, extractVars, analyzeVars, roundVars, twinVars, concVars>>
SpecSplit == InitS /\ [][NextS]_vars

\* the context Run builds from two pod logs, split again for the delegate
InitT == IdleRun /\ InitRetry /\ IdleExtract /\ IdleAnalyze /\ IdleSplit /\ InitRound /\ IdleTwin /\ IdleConc
NextT == RoundStep /\ UNCHANGED <<runVars, retryVars, extractVars, analyzeVars, splitVars, twinVars, concVars>>
SpecRoundTrip == InitT /\ [][NextT]_vars


----------------------------------------------------------------------------
\* Properties of Run (Spec)

AgentConfigured ==
    pluginCfg.present /\ pluginCfg.valid
    /\ Field(pluginCfg.obj, "analysisMode", "") = AnalysisModeAgent

AgentInputMissing ==
    Field(pluginCfg.obj, "namespace", "") = "" \/ Field(pluginCfg.obj, "podName", NoText) = NoText

Called(name) == \E i \in DOMAIN calls : calls[i] = name

RECURSIVE DecNat(_)
\* decimal numeral of a natural number
DecNat(n) == IF n < 10 THEN Digits[n + 1] ELSE DecNat(n \div 10) \o Digits[(n % 10) + 1]
Decimal(c) == IF c < 0 THEN "-" \o DecNat(0 - c) ELSE DecNat(c)

\* c/100 with exactly two decimals, for c in 0..100
TwoDecimals(c) ==
    IF c = 100 THEN "1.00"
    ELSE IF c < 10 THEN "0.0" \o DecNat(c)
    ELSE "0." \o DecNat(c)

\* C1: in a run configured with analysisMode "agent" the direct analyzer
\* analyzeLogsWithAI is never invoked, and every failure met on the agent
\* path (missing namespace/podName found by the check, failed health probe,
\* analyze transport error, non-200 status, undecodable body) ends the run
\* in phase Error with that failure as message.
C1_NoSilentFallback ==
    AgentConfigured =>
        /\ ~Called("analyzeLogsWithAI")
        /\ pc # "analyzeLogsWithAI"
        /\ (pc = "done" /\ aiErr # NoErr) =>
              (newMeasurement.Phase = PhaseError /\ newMeasurement.Message = aiErr)
        /\ (pc = "done" /\ analysisMode = AnalysisModeAgent /\ AgentInputMissing) =>
              (newMeasurement.Phase = PhaseError /\ newMeasurement.Message = ErrAgentConfig)

C1_Witness ==
    /\ AgentConfigured /\ pc = "done" /\ Called("HealthCheck") /\ aiErr # NoErr
    /\ newMeasurement.Phase = PhaseError

\* C2 (as claimed): a run configured with analysisMode "agent" and an empty
\* namespace or podName always ends in phase Error, and its message is the
\* configuration error whenever no collaborator had failed before.
C2_AgentConfigError ==
    (pc = "done" /\ AgentConfigured /\ AgentInputMissing) =>
        /\ newMeasurement.Phase = PhaseError
        /\ (logsContext # NoText => newMeasurement.Message = ErrAgentConfig)

\* C3: a decision record with promote = true and confidence c in 0..100
\* gives phase Successful, value c/100 with exactly two decimals and
\* metadata "confidence" equal to the decimal numeral of c.
C3_PromoteScore ==
    (newMeasurement.Metadata.isSet /\ result.Promote /\ result.Confidence \in 0..100) =>
        /\ newMeasurement.Phase = PhaseSuccessful
        /\ newMeasurement.Value = TwoDecimals(result.Confidence)
        /\ newMeasurement.Metadata.confidence = Decimal(result.Confidence)
        /\ (result.Confidence = 100 => newMeasurement.Value = "1.00")
        /\ (result.Confidence = 0 => newMeasurement.Value = "0.00")

C3_Witness ==
    /\ pc = "done" /\ result.Promote /\ result.Confidence = 7
    /\ newMeasurement.Phase = PhaseSuccessful /\ newMeasurement.Value = "0.07"

\* C4: a decision record with promote = false gives phase Failed and value
\* "0" whatever the confidence, which is still recorded unchanged in
\* metadata "confidence".
C4_FailScoreZero ==
    (newMeasurement.Metadata.isSet /\ ~result.Promote) =>
        /\ newMeasurement.Phase = PhaseFailed
        /\ newMeasurement.Value = "0"
        /\ newMeasurement.Metadata.confidence = Decimal(result.Confidence)

C4_Witness ==
    /\ pc = "done" /\ ~result.Promote /\ result.Confidence = 90
    /\ newMeasurement.Phase = PhaseFailed /\ newMeasurement.Metadata.confidence = "90"

----------------------------------------------------------------------------
\* Properties of retryWithBackoff (SpecRetry)

\* w lies within 10% of d
Within10(w, d) ==
    /\ ~w.neg
    /\ DLeq(DTimes[d, 9], DTimes[w, 10]) /\ DLeq(DTimes[w, 10], DTimes[d, 11])

\* the nominal intervals of the schedule initial 1s, multiplier 2, cap 60s
ExponentialSchedule ==
    { Milliseconds(k * Second) : k \in {1, 2, 4, 8, 16, 32, 60} }

\* C5: once an attempt has failed with an error that is not a rate-limit
\* signal, the operation is not invoked again, at whatever attempt it occurs.
C5_PermanentError ==
    [][(lastErr # NilErr /\ ~IsRateLimit(lastErr)) => attempt' = attempt]_vars

C5_Witness ==
    /\ rpc = "done" /\ attempt = 2 /\ lastErr.kind = "other"
    /\ retResult = MaxRetriesError(2, lastErr)

\* C6 (as claimed): the operation is never invoked more than maxRetries times.
C6_AttemptsCapped == attempt <= maxRetries

\* C7 (as claimed): after a rate-limit error with a positive retry hint d,
\* the wait before the very next attempt is d, up to the 10% randomization.
C7_HintIsNextWait ==
    (rpc = "waiting" /\ Positive(ApiWaitTime(lastErr))) => Within10(next, ApiWaitTime(lastErr))

\* C8 (as claimed): once a hinted wait has been used, the wait after a later
\* rate-limit error without hint is an interval of the exponential schedule
\* (initial 1s, multiplier 2, cap 60s).
C8_HintForNextAttemptOnly ==
    (rpc = "waiting" /\ prevHint /\ IsRateLimit(lastErr) /\ IsZero(ApiWaitTime(lastErr)))
        => nominal \in ExponentialSchedule

\* C9 (as claimed): when ctx is cancelled during the wait between attempts,
\* or after the operation returned and before the wait starts, the wait is
\* abandoned and the operation is not invoked again. The select of
\* backoff.Retry may take the timer case of a cancelled wait, and then the
\* operation is invoked once more.
C9_NoAttemptAfterCancel ==
    [][(cancelled /\ cancelledAt \in {"check", "waiting"})
          => (attempt' = attempt /\ rpc' # "operation" /\ elapsed' = elapsed)]_vars

\* an error value that identifies the cancellation of ctx as its cause
IsCancellation(e) ==
    \/ e.kind = "ctx"
    \/ (e.kind = "maxRetries" /\ e.last.kind = "ctx")

\* C10 (as claimed): when retryWithBackoff ends because ctx was cancelled,
\* the error it returns identifies the cancellation.
C10_CancellationError ==
    (rpc = "done" /\ retryErr = CtxCanceled) => IsCancellation(retResult)

----------------------------------------------------------------------------
\* Remediation and the health probe

\* how many times Run called the collaborator
CountCalls(name) == Cardinality({ i \in DOMAIN calls : calls[i] = name })

\* C11: createCanaryFailureIssue is called exactly once when the outcome is
\* Failed and never when it is Successful or Error, and it receives the
\* combined log context, the narrative text, the configured base branch and
\* the configured repository URL.
C11_IssueOnlyOnFailure ==
    /\ CountCalls("createCanaryFailureIssue") <= 1
    /\ pc = "done" =>
         CountCalls("createCanaryFailureIssue") =
            (IF newMeasurement.Phase = PhaseFailed THEN 1 ELSE 0)
    /\ issueArgs.called =>
         /\ issueArgs.logsContext = BuildLogsContext(stableLogs, canaryLogs)
         /\ issueArgs.text = newMeasurement.Metadata.analysis
         /\ issueArgs.baseBranch = Field(pluginCfg.obj, "baseBranch", "")
         /\ issueArgs.githubUrl = Field(pluginCfg.obj, "githubUrl", "")

C11_Witness ==
    /\ pc = "done"
    /\ newMeasurement.Phase = PhaseFailed
    /\ issueArgs.called
    /\ issueArgs.baseBranch = "main"
    /\ issueArgs.logsContext = BuildLogsContext(<<"o","k">>, <<"o","k">>)

\* C12: a failing remediation leaves the verdict as it is: the measurement
\* has phase Failed, value "0", no message and the analysis metadata, the
\* same as when the remediation succeeds.
C12_IssueErrorIgnored ==
    (pc = "done" /\ issueArgs.called) =>
        newMeasurement =
            [StartedAt |-> TRUE, Phase |-> PhaseFailed, Value |-> "0", Message |-> "",
             Metadata |-> [isSet |-> TRUE, analysis |-> result.Text,
                           analysisJSON |-> analysisJSON,
                           confidence |-> FormatInt(result.Confidence)],
             FinishedAt |-> TRUE]

C12_Witness ==
    /\ pc = "done"
    /\ issueArgs.called
    /\ issueArgs.failed
    /\ newMeasurement.Phase = PhaseFailed

\* C20: HealthCheck answers nil for every HTTP response, whatever its status,
\* and an error exactly when the request fails at the transport level.
C20_HealthCheckIgnoresStatus ==
    probe.sent =>
        IF probe.transport
        THEN /\ aiErr = "health check failed: connection refused"
             /\ ~Called("AnalyzeWithAgent")
        ELSE pc = "analyzeWithAgent" \/ Called("AnalyzeWithAgent")

C20_Witness ==
    /\ probe.sent
    /\ ~probe.transport
    /\ probe.status = 500
    /\ Called("AnalyzeWithAgent")

----------------------------------------------------------------------------
\* The extraction of the first object

\* opening minus closing braces among s[i..j]
Balance(s, i, j) ==
    Cardinality({ k \in i..j : s[k] = "{" }) - Cardinality({ k \in i..j : s[k] = "}" })

BraceFree(s) == \A k \in DOMAIN s : s[k] \notin {"{", "}"}

\* the positions at which the brace count, taken from position i, is back at zero
Closings(s, i) == { j \in i..Len(s) : Balance(s, i, j) = 0 }

\* w is one balanced object: it opens with a brace that its last character closes
IsObject(w) ==
    /\ Len(w) >= 2
    /\ w[1] = "{"
    /\ Closings(w, 1) # {}
    /\ \A j \in Closings(w, 1) : j = Len(w)

\* C17: a non-empty result of extractFirstJSON(s) is the substring from the
\* first opening brace to the first position where the brace count is back at
\* zero; an object after brace-free text is returned whole, nested objects
\* included, and of several top-level objects only the first is returned.
C17_FirstBalancedObject ==
    exPc = "returned" =>
        /\ exOut # NoText =>
             /\ IndexOpen(exIn) > 0
             /\ Closings(exIn, IndexOpen(exIn)) # {}
             /\ \E e \in Closings(exIn, IndexOpen(exIn)) :
                  /\ \A j \in Closings(exIn, IndexOpen(exIn)) : e <= j
                  /\ exOut = SubSeq(exIn, IndexOpen(exIn), e)
        /\ \A i \in DOMAIN exIn : \A j \in i..Len(exIn) :
             (BraceFree(SubSeq(exIn, 1, i - 1)) /\ IsObject(SubSeq(exIn, i, j)))
                => exOut = SubSeq(exIn, i, j)

\* a nested object between brace-free text
C17_WitnessNested ==
    /\ exPc = "returned"
    /\ exIn = <<"a", "{", "{", "}", "}">>
    /\ exOut = <<"{", "{", "}", "}">>

\* C18: extractFirstJSON(s) is empty exactly when s has no opening brace or
\* its first opening brace is never closed; a surplus closing brace after a
\* balanced object does not make the result empty.
C18_EmptyIffNoObject ==
    exPc = "returned" =>
        /\ exOut = NoText <=>
             (IndexOpen(exIn) = 0 \/ Closings(exIn, IndexOpen(exIn)) = {})
        /\ \A j \in DOMAIN exIn :
             (j < Len(exIn) /\ IsObject(SubSeq(exIn, 1, j)) /\ exIn[j + 1] = "}")
                => exOut # NoText

\* an opening brace that is never closed, after a stray closing brace
C18_WitnessUnclosed ==
    /\ exPc = "returned"
    /\ exIn = <<"}", "{", "{", "}">>
    /\ exOut = NoText

----------------------------------------------------------------------------
\* The decision record of analyzeLogsWithAI

\* the model call succeeded: its text went on to the parse
ModelCallSucceeded == anParses # <<>>

\* the text could not be parsed, neither whole nor after the extraction
StillUnparsed == ModelCallSucceeded /\ anParseErr # NoErr

\* the text is an object that has no promote entry
OmitsPromote ==
    /\ ModelCallSucceeded
    /\ ScanDocument(anParses[1]).ok
    /\ ScanDocument(anParses[1]).kind = "object"
    /\ \A i \in DOMAIN ScanDocument(anParses[1]).val :
         FieldOfKey(ScanDocument(anParses[1]).val[i].key) # "Promote"

\* C13: whenever the model call succeeds, analyzeLogsWithAI returns a nil
\* error, whether or not the text could be parsed, whole or after extraction.
C13_MalformedIsNoError ==
    (anRet.returned /\ ModelCallSucceeded) => anRet.err = NoErr

C13_Witness ==
    /\ anRet.returned
    /\ StillUnparsed
    /\ anRet.err = NoErr

\* C14: when the text fails the direct parse and still fails after the
\* extraction, or nothing can be extracted, the returned record is the zero
\* value, with no field taken from the text.
C14_UnparsedIsZeroValue ==
    (anRet.returned /\ StillUnparsed) => anRet.result = ZeroObj

\* C15: the confidence of every decision record handed to the resolver
\* lies in 0..100.
C15_ConfidenceInRange ==
    (pc = "resolve" /\ aiErr = NoErr) => result.Confidence \in 0..100

\* C16: when the output could not be structured into a decision, or it
\* omits the promote entry, the returned record has promote = true.
C16_DefaultPromote ==
    (anRet.returned /\ (StillUnparsed \/ OmitsPromote)) => anRet.result.Promote

\* w is an object that parses, without error, into a decision record
IsDecisionObject(w) ==
    /\ w # <<>>
    /\ w[1] = "{"
    /\ UnmarshalResult(w, ZeroObj).err = NoErr

\* C19: the whole text is parsed first; extractFirstJSON is applied only when
\* that parse fails, and the parse is then retried once, on the extracted
\* text; a decision object between prose yields the record it encodes.
C19_ExtractorIsFallback ==
    /\ ModelCallSucceeded => anParses[1] = TrimSpace(anTxt)
    /\ anExtracts # <<>> =>
         /\ Len(anExtracts) = 1
         /\ anExtracts[1] = anParses[1]
         /\ UnmarshalResult(anParses[1], ZeroObj).err # NoErr
    /\ Len(anParses) <= 2
    /\ Len(anParses) = 2 =>
         /\ anExtracts # <<>>
         /\ anParses[2] = extractFirstJSON(anExtracts[1])
    /\ anRet.returned /\ ModelCallSucceeded =>
         \A i \in DOMAIN anTxt : \A j \in i..Len(anTxt) :
            ( /\ anTxt[i] = "{"
              /\ anTxt[j] = "}"
              /\ BraceFree(SubSeq(anTxt, 1, i - 1))
              /\ BraceFree(SubSeq(anTxt, j + 1, Len(anTxt)))
              /\ i > 1 \/ j < Len(anTxt)
              /\ IsDecisionObject(SubSeq(anTxt, i, j)) )
            => anRet.result = UnmarshalResult(SubSeq(anTxt, i, j), ZeroObj).obj

----------------------------------------------------------------------------
\* The split of the log context

\* the 1-based positions at which w occurs in s
Occurrences(s, w) ==
    { i \in 1..(Len(s) - Len(w) + 1) : SubSeq(s, i, i + Len(w) - 1) = w }

Least(S) == CHOOSE i \in S : \A j \in S : i <= j

HasBothMarkers(s) ==
    Occurrences(s, stableMarker) # {} /\ Occurrences(s, canaryMarker) # {}

\* C21: for every text that holds both markers, in any order and any number,
\* splitLogs returns normally, the stable text being what lies between the
\* end of the stable marker and the start of the canary marker and the canary
\* text what follows the canary marker.
C21_SplitBetweenMarkers ==
    (spPc # "call" /\ HasBothMarkers(spIn)) =>
        /\ spPc = "returned"
        /\ spOut.stable = SubSeq(spIn, Least(Occurrences(spIn, stableMarker)) + Len(stableMarker),
                                 Least(Occurrences(spIn, canaryMarker)) - 1)
        /\ spOut.canary = SubSeq(spIn, Least(Occurrences(spIn, canaryMarker)) + Len(canaryMarker),
                                 Len(spIn))

\* C22: for every text in which a marker is missing, the empty text and the
\* texts shorter than a marker included, splitLogs returns the whole text as
\* the stable logs and the empty text as the canary logs.
C22_MissingMarkerFallback ==
    (spPc # "call" /\ ~HasBothMarkers(spIn)) =>
        /\ spPc = "returned"
        /\ spOut.stable = spIn
        /\ spOut.canary = NoText

\* only the stable marker is there, with log text after it
C22_Witness ==
    /\ spPc = "returned"
    /\ spIn = stableMarker \o <<"\n", "x">>
    /\ spOut = [stable |-> spIn, canary |-> NoText]

----------------------------------------------------------------------------
\* Mode dispatch, the delegate's answer and the verdict

\* the run is past analyzeWithMode and its analyzer
Analyzed == pc \in {"resolve", "createIssue", "finish"}

\* C23: for every mode other than "agent" ("default", empty, unknown, no
\* configuration) analyzeWithMode calls the direct analyzer, once, with the
\* model name, the log context and the extra prompt, and the delegate is
\* never contacted: no health probe and no analyze request.
C23_DirectUnlessAgent ==
    ~AgentConfigured =>
        /\ ~Called("HealthCheck") /\ ~Called("AnalyzeWithAgent")
        /\ ~probe.sent /\ ~agentReply.sent
        /\ pc \notin {"healthCheck", "analyzeWithAgent"}
        /\ Analyzed =>
             /\ CountCalls("analyzeLogsWithAI") = 1
             /\ aiParams.called
             /\ aiParams.ModelName =
                  (IF Field(pluginCfg.obj, "model", "") = "" THEN "gemini-2.0-flash"
                   ELSE Field(pluginCfg.obj, "model", ""))
             /\ aiParams.LogsContext = BuildLogsContext(stableLogs, canaryLogs)
             /\ aiParams.ExtraPrompt = Field(pluginCfg.obj, "extraPrompt", "")

\* an unknown mode, with an extra prompt configured
C23_Witness ==
    /\ Field(pluginCfg.obj, "analysisMode", "") = "turbo"
    /\ Analyzed
    /\ aiParams.called
    /\ aiParams.ExtraPrompt = "be strict"

\* C24: when agent mode is requested with an empty pod name, no network
\* call is made in that run: no pod logs are fetched from the cluster, the
\* delegate is neither probed nor asked, and the model is not called.
C24_ConfigErrorBeforeNetwork ==
    (AgentConfigured /\ Field(pluginCfg.obj, "podName", NoText) = NoText) =>
        /\ ~Called("readFirstPodLogs")
        /\ ~Called("HealthCheck") /\ ~Called("AnalyzeWithAgent")
        /\ ~Called("analyzeLogsWithAI")

\* C27: when the delegate answers the analyze request with a status other
\* than 200, whatever its body, the analysis ends with the status error, an
\* empty raw text and a zero-value record.
C27_NonSuccessIsError ==
    (agentReply.sent /\ ~agentReply.transport /\ agentReply.status # 200) =>
        /\ aiErr = "agent returned status " \o ToString(agentReply.status)
        /\ analysisJSON = NoJSON
        /\ result = ZeroResult

\* a success status other than 200, with a body that would decode
C27_Witness ==
    /\ agentReply.sent /\ ~agentReply.transport
    /\ agentReply.status = 201 /\ agentReply.decodes
    /\ pc = "done"
    /\ newMeasurement.Phase = PhaseError

\* C28: every error of analyzeWithMode ends the run in phase Error with the
\* error's text as message, no value, no analysis metadata and no remediation.
C28_AnalysisErrorIsExplicit ==
    (pc = "done" /\ aiErr # NoErr) =>
        /\ newMeasurement.Phase = PhaseError
        /\ newMeasurement.Message = aiErr
        /\ newMeasurement.Value = NoValue
        /\ newMeasurement.Metadata = NoMetadata
        /\ newMeasurement.FinishedAt
        /\ ~issueArgs.called
        /\ ~Called("createCanaryFailureIssue")

\* the delegate answered with a server error
C28_Witness ==
    /\ pc = "done"
    /\ aiErr = "agent returned status 500"
    /\ newMeasurement.Message = "agent returned status 500"

\* the scores above 0 and up to 1, as Run writes them
PromoteScores == {"1"} \cup { TwoDecimals(c) : c \in 1..100 }

\* C29: every Successful measurement carries a score above 0 and at most 1,
\* and every Failed measurement carries the score 0.
C29_ScoreRange ==
    pc = "done" =>
        /\ newMeasurement.Phase = PhaseSuccessful => newMeasurement.Value \in PromoteScores
        /\ newMeasurement.Phase = PhaseFailed => newMeasurement.Value = "0"

\* C30: when the text still fails to parse after the extraction, the raw
\* text analyzeLogsWithAI returns is the text of the model, the fragments
\* concatenated in order, unchanged.
C30_RawTextIsOriginal ==
    (anRet.returned /\ StillUnparsed) => anRet.rawJSON = ConcatCands(anResp.Candidates)

----------------------------------------------------------------------------
\* The error of retryWithBackoff and the waits without a hint

\* C25: whenever retryWithBackoff returns an error, the error names the
\* number of times the operation was invoked and the error that the last
\* invocation returned.
C25_ErrorNamesAttemptsAndLast ==
    (rpc = "done" /\ retResult # NilErr) =>
        /\ retResult.kind = "maxRetries"
        /\ retResult.attempts = invoked
        /\ lastRet # NilErr
        /\ retResult.last = lastRet

\* three invocations, the last one failing for good
C25_Witness ==
    /\ rpc = "done"
    /\ invoked = 3
    /\ lastRet.kind = "other"
    /\ retResult = MaxRetriesError(3, lastRet)

MinOf(a, b) == IF a <= b THEN a ELSE b

\* the interval the schedule prescribes after the k-th attempt
ScheduledInterval(k) == Milliseconds(MinOf(Second * 2 ^ (k - 1), 60 * Second))

\* no error of the call has carried a usable hint so far
NoHintSoFar == ~prevHint /\ ~Positive(ApiWaitTime(lastErr))

\* C26 (as claimed): while the rate-limit errors carry no usable hint (no
\* retry detail, an empty or unparseable duration, a duration that is not
\* positive) the error is retried and the wait after the k-th attempt is
\* within 10% of min(1s * 2^(k-1), 60s).
C26_ExponentialWithoutHint ==
    /\ (rpc = "check" /\ lastRet # NilErr /\ IsRateLimit(lastRet) /\ ~Positive(ApiWaitTime(lastRet)))
          => opRet = "retry"
    /\ (rpc = "waiting" /\ NoHintSoFar) =>
          /\ IsRateLimit(lastErr)
          /\ nominal = ScheduledInterval(attempt)
          /\ Within10(next, ScheduledInterval(attempt))

----------------------------------------------------------------------------
\* The text of a response

RECURSIVE JoinTexts(_)
\* the texts of a sequence one after the other, nothing in between
JoinTexts(ts) == IF ts = <<>> THEN <<>> ELSE Head(ts) \o JoinTexts(Tail(ts))

\* the text fragments of a candidate, none when it has no content
FragmentsOf(cand) ==
    IF cand.Content.isNil THEN <<>>
    ELSE [i \in DOMAIN cand.Content.Parts |-> cand.Content.Parts[i].Text]

\* the text fragments of a response, in candidate order then part order
Fragments(r) ==
    IF r.isNil THEN <<>>
    ELSE JoinTexts([i \in DOMAIN r.Candidates |-> FragmentsOf(r.Candidates[i])])

\* C32: for every response concatCandidates returns, and what it returns is
\* the text fragments of all candidates in candidate order then part order,
\* with nothing between them; the empty text for a nil response and for a
\* response without candidates.
C32_ConcatInOrder ==
    /\ anPc # "panic"
    /\ anPc = "unmarshal" => anTxt = JoinTexts(Fragments(anResp))

----------------------------------------------------------------------------
\* The selectors, the delegation protocol and the measurement of Run

\* C34: the selectors Run fetches the pod logs with are the values of the
\* documented configuration fields stablePodLabel and canaryPodLabel when
\* the configuration holds them, and role=stable / role=canary only when it
\* does not.
C34_DocumentedLabelFields ==
    Called("readFirstPodLogs") =>
        /\ stableSelector = Field(pluginCfg.obj, "stablePodLabel", "role=stable")
        /\ canarySelector = Field(pluginCfg.obj, "canaryPodLabel", "role=canary")

\* the positions of a call in the calls of the run
CallsAt(name) == { i \in DOMAIN calls : calls[i] = name }

\* C35: in agent mode the health probe is issued before the analyze request,
\* the analyze request is sent only after a probe that came back without a
\* transport error, a failed probe ends the analysis with an error, and at
\* most one analyze request is sent.
C35_ProbeThenAnalyze ==
    /\ Cardinality(CallsAt("AnalyzeWithAgent")) <= 1
    /\ (pc = "analyzeWithAgent" \/ Called("AnalyzeWithAgent") \/ agentReply.sent) =>
          /\ probe.sent /\ ~probe.transport
          /\ \A i \in CallsAt("AnalyzeWithAgent") : \E j \in CallsAt("HealthCheck") : j < i
    /\ (probe.sent /\ probe.transport) =>
          /\ pc \in {"resolve", "done"}
          /\ aiErr = A2AHealthCheck(probe)
          /\ aiErr # NoErr
          /\ pc = "done" => newMeasurement.Phase = PhaseError

\* the probe was answered with a not-found status and the request was sent
C35_Witness ==
    /\ pc = "done"
    /\ probe.sent /\ ~probe.transport /\ probe.status = 404
    /\ Called("AnalyzeWithAgent")
    /\ agentReply.sent

\* C36: when the retrieval of the canary pod logs fails with a not-found
\* error, Run returns phase Successful with value "1" and no analysis takes
\* place: the model and the delegate are not called and no remediation is
\* triggered, whatever the mode and the agent configuration.
C36_NoCanaryIsSuccess ==
    (canaryFetch.done /\ canaryFetch.err = "notfound") =>
        /\ pc = "done"
        /\ newMeasurement.Phase = PhaseSuccessful
        /\ newMeasurement.Value = "1"
        /\ newMeasurement.FinishedAt
        /\ ~Called("analyzeLogsWithAI") /\ ~aiParams.called
        /\ ~Called("HealthCheck") /\ ~Called("AnalyzeWithAgent")
        /\ ~probe.sent /\ ~agentReply.sent
        /\ ~Called("createCanaryFailureIssue") /\ ~issueArgs.called

\* agent mode without a namespace, and no canary pod
C36_Witness ==
    /\ canaryFetch.done /\ canaryFetch.err = "notfound"
    /\ Field(pluginCfg.obj, "analysisMode", "") = "agent"
    /\ Field(pluginCfg.obj, "namespace", "") = ""
    /\ newMeasurement.Phase = PhaseSuccessful

\* C37: every measurement Run returns is terminal and well-formed: the phase
\* is Successful, Failed or Error, FinishedAt is set, a value is set exactly
\* in the phases Successful and Failed, and a message exactly in the phase
\* Error.
C37_MeasurementWellFormed ==
    pc = "done" =>
        /\ newMeasurement.Phase \in {PhaseSuccessful, PhaseFailed, PhaseError}
        /\ newMeasurement.FinishedAt
        /\ newMeasurement.StartedAt
        /\ (newMeasurement.Value # NoValue) <=>
              (newMeasurement.Phase \in {PhaseSuccessful, PhaseFailed})
        /\ (newMeasurement.Message # "") <=> (newMeasurement.Phase = PhaseError)

\* a failing verdict whose remediation failed as well
C37_Witness ==
    /\ pc = "done"
    /\ newMeasurement.Phase = PhaseFailed
    /\ newMeasurement.Value = "0"
    /\ newMeasurement.Message = ""
    /\ issueArgs.called

----------------------------------------------------------------------------
\* Success of retryWithBackoff

\* the last invocation of the operation returned nil
LastInvocationSucceeded == invoked >= 1 /\ lastRet = NilErr

\* C39: retryWithBackoff returns nil exactly when the last invocation of the
\* operation succeeded, the operation is not invoked again after a
\* successful invocation, and rate-limit errors of earlier attempts do not
\* turn a later success into an error.
C39_NilIffLastSucceeded ==
    /\ rpc = "done" => (retResult = NilErr <=> LastInvocationSucceeded)
    /\ LastInvocationSucceeded => rpc \in {"check", "return", "done"}
    /\ (rpc = "done" /\ LastInvocationSucceeded) => invoked = attempt

\* two rate-limit errors, then a success
C39_Witness ==
    /\ rpc = "done"
    /\ invoked = 3
    /\ IsRateLimit(lastErr)
    /\ LastInvocationSucceeded
    /\ retResult = NilErr

----------------------------------------------------------------------------
\* The round trip of the pod logs

\* C40: splitting the context Run builds from a stable and a canary pod log
\* gives the stable log back as the stable text and the canary log as the
\* canary text, up to the newlines Run puts around them, also when the logs
\* hold the text of a marker.
C40_RoundTrip ==
    /\ rtPc # "panicked"
    /\ rtPc = "sent" =>
          /\ rtOut.stable = <<"\n">> \o rtStable \o <<"\n", "\n">>
          /\ rtOut.canary = <<"\n">> \o rtCanary

----------------------------------------------------------------------------
\* Termination of retryWithBackoff

----------------------------------------------------------------------------
\* Quota details and concurrent calls

\* the error retryWithBackoff returns, without the quota details of the
\* error it quotes
ResultWithoutQuota(r) ==
    IF r.kind = "maxRetries" THEN [r EXCEPT !.last = StripQuota(@)] ELSE r

\* C31 (as claimed): two calls of retryWithBackoff whose operations return
\* the same outcomes except for the quota-violation details make the same
\* number of attempts, wait the same durations and return the same result.
\* The error retryWithBackoff returns quotes the last error of the operation
\* with %v, and the text of a genai.APIError holds its Details: the results
\* of the two calls differ where the quoted errors do.
C31_SameResult ==
    /\ twin.rpc = rpc
    /\ twin.attempt = attempt
    /\ twin.nominal = nominal /\ twin.next = next
    /\ twin.elapsed = elapsed
    /\ twin.retResult = retResult

\* C31 (amended): the two calls make the same number of attempts, classify
\* each outcome alike, wait the same durations and end alike: both return
\* nil, or both return the max-retries error with the same attempt count and
\* a last error that differs in its quota details at most.
C31_QuotaDetailsAreDiagnostics ==
    /\ twin.rpc = rpc
    /\ twin.attempt = attempt
    /\ twin.opRet = opRet
    /\ twin.nominal = nominal /\ twin.next = next
    /\ twin.elapsed = elapsed
    /\ twin.backoffConfig = backoffConfig
    /\ twin.lastErr = StripQuota(lastErr)
    /\ twin.retResult = ResultWithoutQuota(retResult)
    /\ (twin.retResult = NilErr) <=> (retResult = NilErr)

\* the call saw quota details next to a hint and then quota details alone,
\* waited twice and returned an error; the twin saw neither detail
C31_Witness ==
    /\ rpc = "done"
    /\ attempt = 3
    /\ retResult.kind = "maxRetries"
    /\ retResult.last # twin.retResult.last
    /\ prevHint
    /\ twin.attempt = 3

\* the backoff the i-th call reaches through its pointer
BackoffOf(i) == heap[frames[i].backoffConfig]

====
